---------------------------- MODULE Spec2Model ----------------------------
(***************************************************************************)
(* A model of the XACML test client of kfrencher/xacml:                    *)
(*   - XacmlTestUtils.createRequest and AuthzForceClient.buildRequestXml   *)
(*     (the request encoder),                                              *)
(*   - AuthzForceClient.parseDecisionResponse (the response decoder),      *)
(*   - the PDP lifecycle calls createDomain / addPolicy and the test       *)
(*     hooks that drive them,                                              *)
(*   - deleteDomain, setActivePolicy and healthCheck against the PDP's     *)
(*     domains, and several calls in flight on one client,                 *)
(*   - XacmlTestUtils.waitForCondition, cleanupDomains, extractPolicyId,   *)
(*   - formatXML of scripts/build-xacml.js.                                *)
(*                                                                         *)
(* JavaScript strings are TLA+ strings.  A value that may be null or       *)
(* undefined is a sequence of length 0 (null/undefined) or 1 (the value).  *)
(* An XML document is the sequence of its elements in document order,      *)
(* which is the order in which the XPath queries of the client (all of the *)
(* form //*[local-name()="X"]) visit them.                                 *)
(***************************************************************************)
EXTENDS Integers, Sequences, FiniteSets, TLC

VARIABLES
    options,    \* the argument last handed to a helper of XacmlTestUtils
    request,    \* the request object the caller currently holds
    sent,       \* the HTTP requests issued by the most recent call, in order
    response,   \* the HTTP response the most recent call received
    outcome,    \* how the most recent call ended: returned a value or threw
    pdp,        \* the PDP: its domains, their active root policy, the calls made on them
    wait,       \* a run of XacmlTestUtils.waitForCondition
    cleanup,    \* a run of XacmlTestUtils.cleanupDomains
    calls,      \* the evaluateRequest calls in flight on one client
    fmt,        \* a run of formatXML
    suite       \* a run of a test file: its hooks and its createdDomains list

vars == <<options, request, sent, response, outcome, pdp, wait, cleanup, calls, fmt, suite>>

\* what the encoder, decoder and lifecycle runs leave alone
added == <<pdp, wait, cleanup, calls, fmt, suite>>

-----------------------------------------------------------------------------
(* Bounds of the model *)

\* longest `resources` array a caller passes
MaxResources == 2
\* most elements in a response document of the PDP (decoder runs)
MaxElems == 3
\* most elements in a response document of the PDP (lifecycle runs)
MaxLinkElems == 2
\* longest list of domain ids handed to cleanupDomains
MaxCleanup == 3
\* most calls in flight on one client at a time
MaxCalls == 2
\* most attributes in the policy text handed to extractPolicyId
MaxAttrs == 3
\* most children of the root element of a document handed to formatXML
MaxUnits == 2
MaxResults == 2

-----------------------------------------------------------------------------
(* JavaScript values *)

Null == <<>>
Some(v) == <<v>>
IsNull(x) == Len(x) = 0
Val(x) == x[1]

\* String.prototype.includes
Includes(s, needle) ==
    \E i \in 1..(Len(s) - Len(needle) + 1) : SubSeq(s, i, i + Len(needle) - 1) = needle

\* the index of the last occurrence of the one-character string c in s, or 0
LastIndexOf(s, c) ==
    LET hits == {i \in 1..Len(s) : SubSeq(s, i, i) = c}
    IN  IF hits = {} THEN 0 ELSE CHOOSE i \in hits : \A j \in hits : j <= i

\* s.split('/').pop() : the text after the last '/', the whole of s without one
SplitPop(s) == SubSeq(s, LastIndexOf(s, "/") + 1, Len(s))

\* an object field that may be missing: undefined, or a bag (Object.entries order)
Undefined == [defined |-> FALSE, entries |-> <<>>]
Bag(entries) == [defined |-> TRUE, entries |-> entries]
\* a `resources` field: undefined, or an array of bags
NoResources == [defined |-> FALSE, list |-> <<>>]
Resources(list) == [defined |-> TRUE, list |-> list]

Pair(k, v) == [key |-> k, value |-> v]
HasKey(entries, k) == \E i \in 1..Len(entries) : entries[i].key = k
Lookup(entries, k) == (CHOOSE i \in 1..Len(entries) : entries[i].key = k)

\* the outcome of a call
Returned(op, v) == [op |-> op, kind |-> "returned", value |-> Some(v), message |-> ""]
Threw(op, msg) == [op |-> op, kind |-> "threw", value |-> Null, message |-> msg]
NoCall == [op |-> "none", kind |-> "none", value |-> Null, message |-> ""]

-----------------------------------------------------------------------------
(* XacmlTestUtils.createRequest *)

\* { k1: d1, ..., ...bag } : the defaults first, each overwritten in place by
\* the bag's own value for that key, then the bag's other keys in their order
SpreadOver(defaults, entries) ==
    [i \in 1..Len(defaults) |->
        IF HasKey(entries, defaults[i].key)
        THEN entries[Lookup(entries, defaults[i].key)]
        ELSE defaults[i]]
    \o SelectSeq(entries, LAMBDA e : ~HasKey(defaults, e.key))

\* `x.k || d` : the bag's value for k unless it is missing or the empty string
OrDefault(entries, k, d) ==
    IF HasKey(entries, k) /\ entries[Lookup(entries, k)].value # ""
    THEN entries[Lookup(entries, k)].value
    ELSE d

\* the parameter default `= {}` of the destructuring pattern
ParamDefault(field) == IF field.defined THEN field.entries ELSE <<>>

createRequest(opts, now) ==
    LET subject == ParamDefault(opts.subject)
        resource == ParamDefault(opts.resource)
        action == ParamDefault(opts.action)
        environment == ParamDefault(opts.environment)
    IN  [subject |-> Bag(SpreadOver(
                        <<Pair("id", OrDefault(subject, "id", "anonymous")),
                          Pair("role", OrDefault(subject, "role", ""))>>, subject)),
         resource |-> Bag(SpreadOver(
                        <<Pair("id", OrDefault(resource, "id", "default-resource")),
                          Pair("type", OrDefault(resource, "type", "document"))>>, resource)),
         resources |-> NoResources,
         action |-> Bag(SpreadOver(
                        <<Pair("id", OrDefault(action, "id", "read"))>>, action)),
         environment |-> Bag(SpreadOver(
                        <<Pair("currentTime", OrDefault(environment, "currentTime", now))>>,
                        environment))]

-----------------------------------------------------------------------------
(* AuthzForceClient.buildRequestXml *)

SubjectCategory == "urn:oasis:names:tc:xacml:1.0:subject-category:access-subject"
ResourceCategory == "urn:oasis:names:tc:xacml:3.0:attribute-category:resource"
ActionCategory == "urn:oasis:names:tc:xacml:3.0:attribute-category:action"
XsString == "http://www.w3.org/2001/XMLSchema#string"

\* `urn:oasis:names:tc:xacml:1.0:<category>:${key}`
AttributeIdOf(category, key) == "urn:oasis:names:tc:xacml:1.0:" \o category \o ":" \o key

\* the object pushed for one [key, value] of a bag
AttributeOf(category, e) ==
    [AttributeId |-> AttributeIdOf(category, e.key),
     IncludeInResult |-> "false",
     AttributeValue |-> [DataType |-> XsString, text |-> e.value]]

\* if (request.<field>) Object.entries(request.<field>).forEach(push)
AttributesOfBag(category, field) ==
    IF field.defined
    THEN [i \in 1..Len(field.entries) |-> AttributeOf(category, field.entries[i])]
    ELSE <<>>

\* the bags of a list merged into one object, later bags overwriting the keys
\* of earlier ones
RECURSIVE MergeBags(_)
MergeBags(list) ==
    IF list = <<>> THEN <<>>
    ELSE LET merged == MergeBags(SubSeq(list, 1, Len(list) - 1))
             last == list[Len(list)]
         IN  [i \in 1..Len(merged) |->
                IF HasKey(last, merged[i].key) THEN last[Lookup(last, merged[i].key)]
                ELSE merged[i]]
             \o SelectSeq(last, LAMBDA e : ~HasKey(merged, e.key))

AttributesOfListMerged(list) == AttributesOfBag("resource", Bag(MergeBags(list)))

RECURSIVE AttributesOfList(_)
AttributesOfList(list) ==
    IF list = <<>> THEN <<>>
    ELSE AttributesOfBag("resource", Bag(Head(list))) \o AttributesOfList(Tail(list))

\* if (request.resources) request.resources.forEach(...)
AttributesOfResources(resources) ==
    IF resources.defined THEN AttributesOfList(resources.list) ELSE <<>>

\* attributes.filter(attr => attr['@'].AttributeId.includes(word))
FilterByWord(attributes, word) ==
    SelectSeq(attributes, LAMBDA a : Includes(a.AttributeId, word))

EnvironmentCategory == "urn:oasis:names:tc:xacml:3.0:attribute-category:environment"

\* buildRequestXml with a fourth block and a fourth wrapper, for
\* request.environment
buildRequestXmlWithEnvironment(req) ==
    LET attributes ==
            AttributesOfBag("subject", req.subject)
            \o AttributesOfBag("resource", req.resource)
            \o AttributesOfResources(req.resources)
            \o AttributesOfBag("action", req.action)
            \o AttributesOfBag("environment", req.environment)
        categories ==
            <<[Category |-> SubjectCategory, Attribute |-> FilterByWord(attributes, "subject")],
              [Category |-> ResourceCategory, Attribute |-> FilterByWord(attributes, "resource")],
              [Category |-> ActionCategory, Attribute |-> FilterByWord(attributes, "action")],
              [Category |-> EnvironmentCategory,
               Attribute |-> FilterByWord(attributes, "environment")]>>
    IN  [root |-> "Request",
         xmlns |-> "urn:oasis:names:tc:xacml:3.0:core:schema:wd-17",
         ReturnPolicyIdList |-> "false",
         CombinedDecision |-> "false",
         Attributes |-> SelectSeq(categories, LAMBDA c : Len(c.Attribute) > 0)]

\* The document js2xmlparser.parse('Request', requestObj) writes: the root's
\* attributes and one <Attributes> element per entry of the Attributes array,
\* each holding one <Attribute> element per entry of its Attribute array.
buildRequestXml(req) ==
    LET attributes ==
            AttributesOfBag("subject", req.subject)
            \o AttributesOfBag("resource", req.resource)
            \o AttributesOfResources(req.resources)
            \o AttributesOfBag("action", req.action)
        categories ==
            <<[Category |-> SubjectCategory, Attribute |-> FilterByWord(attributes, "subject")],
              [Category |-> ResourceCategory, Attribute |-> FilterByWord(attributes, "resource")],
              [Category |-> ActionCategory, Attribute |-> FilterByWord(attributes, "action")]>>
    IN  [root |-> "Request",
         xmlns |-> "urn:oasis:names:tc:xacml:3.0:core:schema:wd-17",
         ReturnPolicyIdList |-> "false",
         CombinedDecision |-> "false",
         Attributes |-> SelectSeq(categories, LAMBDA c : Len(c.Attribute) > 0)]

-----------------------------------------------------------------------------
(* XML documents received from the PDP, as @xmldom/xmldom and xpath see them *)

\* an element: its namespace prefix ("" for none), its local name, its text
\* node (Null when it has none) and its attributes
Element(prefix, local, text, attrs) ==
    [prefix |-> prefix, local |-> local, text |-> text, attrs |-> attrs]
Attr(name, value) == [name |-> name, value |-> value]

\* Element.tagName
QName(e) == IF e.prefix = "" THEN e.local ELSE e.prefix \o ":" \o e.local

\* the document with every element of the PDP written with prefix p; a
\* <parsererror> element is the parser's own marker, not the PDP's
WithPrefix(doc, p) ==
    [i \in 1..Len(doc) |->
        IF doc[i].local = "parsererror" THEN doc[i] ELSE [doc[i] EXCEPT !.prefix = p]]

\* XPath local-name() of an element
LocalNameQualified(e) == QName(e)
LocalName(e) == e.local

\* xpath.select('//*[local-name()="<name>"]', doc)
SelectElements(doc, name) == SelectSeq(doc, LAMBDA e : LocalName(e) = name)

\* xpath.select1('//*[local-name()="<name>"]/text()', doc) : the first text node
SelectFirstText(doc, name) ==
    LET hits == SelectSeq(SelectElements(doc, name), LAMBDA e : ~IsNull(e.text))
    IN  IF hits = <<>> THEN Null ELSE Some(Val(hits[1].text))

HasAttr(e, name) == \E i \in 1..Len(e.attrs) : e.attrs[i].name = name
AttrOf(e, name) == e.attrs[CHOOSE i \in 1..Len(e.attrs) : e.attrs[i].name = name]

\* xpath.select1('//*[local-name()="<name>"]/@<attr>', doc) : the first such Attr node
SelectFirstAttr(doc, name, attr) ==
    LET hits == SelectSeq(SelectElements(doc, name), LAMBDA e : HasAttr(e, attr))
    IN  IF hits = <<>> THEN Null ELSE Some(AttrOf(hits[1], attr))

\* the XML serializer's escaping of one character, in text and in attribute values
EscapeChar(c, inAttr) ==
    IF c = "&" THEN "&amp;"
    ELSE IF c = "<" THEN "&lt;"
    ELSE IF c = ">" THEN "&gt;"
    ELSE IF inAttr /\ c = "\"" THEN "&quot;"
    ELSE c

RECURSIVE Escape(_, _)
Escape(s, inAttr) ==
    IF s = "" THEN ""
    ELSE EscapeChar(SubSeq(s, 1, 1), inAttr) \o Escape(SubSeq(s, 2, Len(s)), inAttr)

\* Text.prototype.toString() : the node serialized
TextToString(data) == Escape(data, FALSE)

\* Attr.prototype.toString() : the node serialized,  name="value" after a space
AttrNodeValue(a) == a.value
AttrToString(a) == " " \o a.name \o "=\"" \o Escape(a.value, TRUE) \o "\""

\* AuthzForceClient.parseXmlToDom : throws when the parsed document holds a
\* <parsererror> element
ParseFails(doc) == \E i \in 1..Len(doc) : QName(doc[i]) = "parsererror"
ParseErrorText(doc) ==
    LET e == doc[CHOOSE i \in 1..Len(doc) : QName(doc[i]) = "parsererror"]
    IN  "XML parsing error: " \o (IF IsNull(e.text) THEN "" ELSE Val(e.text))

DecisionNames == {"Permit", "Deny", "Indeterminate", "NotApplicable"}

\* `if (!decision)` : undefined or the empty string
DecisionMissing(decision) == IsNull(decision) \/ Val(decision) = ""

\* `statusCode || null`
StatusOrNull(statusCode) ==
    IF IsNull(statusCode) \/ Val(statusCode) = "" THEN Null ELSE statusCode

\* a decoder that answers Deny when it finds no decision
parseDecisionResponseDenyByDefault(doc) ==
    IF ParseFails(doc) THEN Threw("parseDecisionResponse", ParseErrorText(doc))
    ELSE
    LET text == SelectFirstText(doc, "Decision")
        attr == SelectFirstAttr(doc, "StatusCode", "Value")
    IN  Returned("parseDecisionResponse",
                 [decision |-> IF IsNull(text) THEN "Deny" ELSE TextToString(Val(text)),
                  status |-> IF IsNull(attr) THEN Null ELSE Some(AttrToString(Val(attr))),
                  obligations |-> SelectElements(doc, "Obligation"),
                  advice |-> SelectElements(doc, "Advice")])

\* a decoder that reads the decision and the status of the last Result
parseDecisionResponseLastResult(doc) ==
    IF ParseFails(doc) THEN Threw("parseDecisionResponse", ParseErrorText(doc))
    ELSE
    LET texts == SelectSeq(SelectElements(doc, "Decision"), LAMBDA e : ~IsNull(e.text))
        decision == IF texts = <<>> THEN Null
                    ELSE Some(TextToString(Val(texts[Len(texts)].text)))
        attrs == SelectSeq(SelectElements(doc, "StatusCode"), LAMBDA e : HasAttr(e, "Value"))
        statusCode == IF attrs = <<>> THEN Null
                      ELSE Some(AttrToString(AttrOf(attrs[Len(attrs)], "Value")))
    IN  IF DecisionMissing(decision)
        THEN Threw("parseDecisionResponse", "No Decision element found in response")
        ELSE Returned("parseDecisionResponse",
                      [decision |-> Val(decision),
                       status |-> StatusOrNull(statusCode),
                       obligations |-> SelectElements(doc, "Obligation"),
                       advice |-> SelectElements(doc, "Advice")])

\* AuthzForceClient.parseDecisionResponse : the call's outcome
parseDecisionResponse(doc) ==
    IF ParseFails(doc) THEN Threw("parseDecisionResponse", ParseErrorText(doc))
    ELSE
    LET text == SelectFirstText(doc, "Decision")
        decision == IF IsNull(text) THEN Null ELSE Some(TextToString(Val(text)))
        attr == SelectFirstAttr(doc, "StatusCode", "Value")
        statusCode == IF IsNull(attr) THEN Null ELSE Some(AttrToString(Val(attr)))
    IN  IF DecisionMissing(decision)
        THEN Threw("parseDecisionResponse", "No Decision element found in response")
        ELSE Returned("parseDecisionResponse",
                      [decision |-> Val(decision),
                       status |-> StatusOrNull(statusCode),
                       obligations |-> SelectElements(doc, "Obligation"),
                       advice |-> SelectElements(doc, "Advice")])

-----------------------------------------------------------------------------
(* HTTP, as axios reports it *)

\* a response: its status (0 when the request got no response at all: a
\* network error or the 10 s timeout) and its body
Http(status, data) == [status |-> status, data |-> data]

\* axios resolves the promise for a 2xx status and rejects it otherwise
Resolves(r) == r.status >= 200 /\ r.status < 300
AxiosMessage(r) ==
    IF r.status = 0 THEN "Network Error"
    ELSE "Request failed with status code " \o ToString(r.status)

HttpRequest(method, url, body) == [method |-> method, url |-> url, body |-> body]

\* AuthzForceClient.evaluateRequest : the request it sends and how it ends
evaluateRequestSends(domainId, req) ==
    HttpRequest("POST", "/domains/" \o domainId \o "/pdp", buildRequestXml(req))

evaluateRequest(domainId, req, resp) ==
    IF ~Resolves(resp)
    THEN Threw("evaluateRequest", "Failed to evaluate request: " \o AxiosMessage(resp))
    ELSE LET parsed == parseDecisionResponse(resp.data)
         IN  IF parsed.kind = "threw"
             THEN Threw("evaluateRequest", "Failed to evaluate request: " \o parsed.message)
             ELSE Returned("evaluateRequest", Val(parsed.value))

-----------------------------------------------------------------------------
(* XacmlTestUtils.extractPolicyId *)

\* the first match of the regular expression /<name>="([^"]+)"/ in s from
\* index i on: its capture group, or Null without a match
IndexOfFrom(s, c, from) ==
    LET hits == {k \in from..Len(s) : SubSeq(s, k, k) = c}
    IN  IF hits = {} THEN 0 ELSE CHOOSE k \in hits : \A j \in hits : k <= j

\* whether the expression matches at index i of s
MatchesAt(s, name, i) ==
    LET pat == name \o "=\""
        start == i + Len(pat)
        close == IndexOfFrom(s, "\"", start)
    IN  /\ i + Len(pat) - 1 <= Len(s)
        /\ SubSeq(s, i, i + Len(pat) - 1) = pat
        /\ close > start

MatchGroup(s, name) ==
    LET at == {i \in 1..Len(s) : MatchesAt(s, name, i)}
    IN  IF at = {} THEN Null
        ELSE LET i == CHOOSE k \in at : \A j \in at : k <= j
                 start == i + Len(name) + 2
             IN  Some(SubSeq(s, start, IndexOfFrom(s, "\"", start) - 1))

\* one expression for both names, /Policy(?:Set)?Id="([^"]+)"/ : whichever
\* comes first in the text
extractPolicyIdFirstInText(policyXml) ==
    LET at == {i \in 1..Len(policyXml) :
                  MatchesAt(policyXml, "PolicySetId", i) \/ MatchesAt(policyXml, "PolicyId", i)}
        first == CHOOSE k \in at : \A j \in at : k <= j
    IN  IF at = {} THEN Null
        ELSE IF MatchesAt(policyXml, "PolicySetId", first)
        THEN MatchGroup(SubSeq(policyXml, first, Len(policyXml)), "PolicySetId")
        ELSE MatchGroup(SubSeq(policyXml, first, Len(policyXml)), "PolicyId")

extractPolicyId(policyXml) ==
    IF ~IsNull(MatchGroup(policyXml, "PolicySetId"))
    THEN MatchGroup(policyXml, "PolicySetId")
    ELSE MatchGroup(policyXml, "PolicyId")

-----------------------------------------------------------------------------
(* AuthzForceClient.createDomain, addPolicy, setActivePolicy *)

\* `${x}` of a string or null
Template(x) == IF IsNull(x) THEN "null" ELSE Val(x)

\* the first path segment instead of the last
SplitShift(s) ==
    LET first == IndexOfFrom(s, "/", 1)
    IN  IF first = 0 THEN s ELSE SubSeq(s, 1, first - 1)

\* href ? href.split('/').shift() : null
FirstSegment(href) == IF href = "" THEN Null ELSE Some(SplitShift(href))

\* href ? href.split('/').pop() : null
LastSegment(href) == IF href = "" THEN Null ELSE Some(SplitPop(href))

\* The part createDomain and addPolicy share: parse the body, find the href of
\* the link element, take its last path segment.  Null stands for success with
\* Some(segment); a message for the error thrown inside the try block.
LinkSegment(doc, noLink, noSegment) ==
    IF ParseFails(doc) THEN [segment |-> Null, error |-> ParseErrorText(doc)]
    ELSE LET hrefAttribute == SelectFirstAttr(doc, "link", "href")
         IN  IF IsNull(hrefAttribute) THEN [segment |-> Null, error |-> noLink]
             ELSE LET segment == LastSegment(AttrNodeValue(Val(hrefAttribute)))
                  IN  IF IsNull(segment) \/ Val(segment) = ""
                      THEN [segment |-> Null, error |-> noSegment]
                      ELSE [segment |-> segment, error |-> ""]

\* `if (domainId) domainProperties['@']['externalId'] = domainId`
createDomainSends(domainId) ==
    HttpRequest("POST", "/domains",
        [root |-> "domainProperties",
         xmlns |-> "http://authzforce.github.io/rest-api-model/xmlns/authz/5",
         externalId |-> IF IsNull(domainId) \/ Val(domainId) = "" THEN Null ELSE domainId,
         description |-> "Test domain for XACML policy evaluation"])

createDomain(domainId, resp) ==
    IF ~Resolves(resp)
    THEN Threw("createDomain", "Failed to create domain: " \o AxiosMessage(resp))
    ELSE LET got == LinkSegment(resp.data,
                        "No link element found in create domain response. Link element is required to extract domain ID.",
                        "Could not extract domain ID from response")
         IN  IF IsNull(got.segment)
             THEN Threw("createDomain", "Failed to create domain: " \o got.error)
             ELSE Returned("createDomain", Val(got.segment))

addPolicySends(domainId, policyXml) ==
    HttpRequest("POST", "/domains/" \o domainId \o "/pap/policies", policyXml)

addPolicy(domainId, policyXml, policyId, resp) ==
    IF ~Resolves(resp)
    THEN Threw("addPolicy",
               "Failed to add policy " \o Template(policyId) \o ": " \o AxiosMessage(resp))
    ELSE LET got == LinkSegment(resp.data,
                        "No link element found in add policy response. Link element is required to extract policy version.",
                        "Could not extract policy version from response")
         IN  IF IsNull(got.segment)
             THEN Threw("addPolicy",
                        "Failed to add policy " \o Template(policyId) \o ": " \o got.error)
             ELSE Returned("addPolicy", Val(got.segment))

\* the root policy reference written into the body as a fixed name
setActivePolicySendsRoot(domainId, policyId) ==
    HttpRequest("PUT", "/domains/" \o domainId \o "/pap/pdp.properties",
        "<pdpPropertiesUpdate><rootPolicyRefExpression>root"
        \o "</rootPolicyRefExpression></pdpPropertiesUpdate>")

setActivePolicySends(domainId, policyId) ==
    HttpRequest("PUT", "/domains/" \o domainId \o "/pap/pdp.properties",
        "<pdpPropertiesUpdate><rootPolicyRefExpression>" \o Template(policyId)
        \o "</rootPolicyRefExpression></pdpPropertiesUpdate>")

setActivePolicy(domainId, policyId, resp) ==
    IF ~Resolves(resp)
    THEN Threw("setActivePolicy", "Failed to set active policy: " \o AxiosMessage(resp))
    ELSE Returned("setActivePolicy", "undefined")

-----------------------------------------------------------------------------
(* The beforeEach hooks of the test suites: create a domain, upload the      *)
(* policy, make it the root policy.  Each gives the requests it sent, the    *)
(* last response it received and how it ended.                               *)

Ran(requests, resp, how) == [sent |-> requests, response |-> Some(resp), outcome |-> how]

\* what follows createDomain in both hooks once the policy id is at hand
UploadAndActivate(first, domainId, policyXml, policyId, r2, r3) ==
    LET s2 == addPolicySends(domainId, policyXml)
        o2 == addPolicy(domainId, policyXml, policyId, r2)
        s3 == setActivePolicySends(domainId, policyId)
        o3 == setActivePolicy(domainId, policyId, r3)
    IN  IF o2.kind = "threw" THEN Ran(<<first, s2>>, r2, Threw("beforeEach", o2.message))
        ELSE IF o3.kind = "threw" THEN Ran(<<first, s2, s3>>, r3, Threw("beforeEach", o3.message))
        ELSE Ran(<<first, s2, s3>>, r3, Returned("beforeEach", domainId))

\* test/data-driven.test.js : the id extracted is handed on as it is
dataDrivenBeforeEach(generatedId, policyXml, r1, r2, r3) ==
    LET s1 == createDomainSends(Some(generatedId))
        o1 == createDomain(Some(generatedId), r1)
    IN  IF o1.kind = "threw" THEN Ran(<<s1>>, r1, Threw("beforeEach", o1.message))
        ELSE UploadAndActivate(s1, Val(o1.value), policyXml, extractPolicyId(policyXml), r2, r3)

\* test/role-based-policy.test.js : `if (policyId) {...} else throw`
roleBasedBeforeEach(generatedId, policyXml, r1, r2, r3) ==
    LET s1 == createDomainSends(Some(generatedId))
        o1 == createDomain(Some(generatedId), r1)
        policyId == extractPolicyId(policyXml)
    IN  IF o1.kind = "threw" THEN Ran(<<s1>>, r1, Threw("beforeEach", o1.message))
        ELSE IF IsNull(policyId) \/ Val(policyId) = ""
        THEN Ran(<<s1>>, r1,
                 Threw("beforeEach", "Failed to extract policy ID from the role-based policy XML"))
        ELSE UploadAndActivate(s1, Val(o1.value), policyXml, policyId, r2, r3)

-----------------------------------------------------------------------------
(* The inputs of the encoder runs *)

\* bags as the tests in test/ write them
EmptyBag == <<>>
SubjectBag == <<Pair("subject-id", "system-a"), Pair("role", "")>>
PersonBag == <<Pair("resource-id", "urn:klf:ds:person")>>
NameBag == <<Pair("resource-id", "urn:klf:ds:field:person.name")>>
ActionBag == <<Pair("action-id", "read")>>

\* every category is tried with a bag whose keys name another category
SubjectFields == {Undefined, Bag(EmptyBag), Bag(SubjectBag), Bag(ActionBag)}
ResourceFields == {Undefined, Bag(EmptyBag), Bag(PersonBag), Bag(SubjectBag)}
ActionFields == {Undefined, Bag(EmptyBag), Bag(ActionBag), Bag(NameBag)}
EnvironmentFields == {Undefined, Bag(<<Pair("currentTime", "2025-01-01T00:00:00.000Z")>>)}
ResourceBags == {PersonBag, NameBag}

RECURSIVE SeqsUpTo(_, _)
SeqsUpTo(S, n) ==
    IF n = 0 THEN {<<>>}
    ELSE LET shorter == SeqsUpTo(S, n - 1)
         IN  shorter \cup {Append(q, x) : q \in shorter, x \in S}

ResourcesFields == {NoResources} \cup {Resources(l) : l \in SeqsUpTo(ResourceBags, MaxResources)}

\* an AccessQuery, and equally the options object handed to createRequest
Queries ==
    [subject : SubjectFields, resource : ResourceFields, resources : ResourcesFields,
     action : ActionFields, environment : EnvironmentFields]

\* new Date().toISOString() at the time of the call
Clock == {"2026-01-01T00:00:00.000Z", "2026-01-01T00:00:01.000Z"}

\* a <Response> with one Result
PermitResponse ==
    <<Element("", "Response", Null, <<>>),
      Element("", "Result", Null, <<>>),
      Element("", "Decision", Some("Permit"), <<>>)>>

EncoderResponses == {Http(200, PermitResponse), Http(0, <<>>)}

-----------------------------------------------------------------------------
(* The inputs of the decoder runs *)

StatusOk == "urn:oasis:names:tc:xacml:1.0:status:ok"

\* the elements a response is made of, before the PDP picks a prefix
ElementShapes ==
    {Element("", "Decision", Some("Permit"), <<>>),
     Element("", "Decision", Some("Maybe"), <<>>),
     Element("", "Decision", Null, <<>>),
     Element("", "StatusCode", Null, <<Attr("Value", StatusOk)>>),
     Element("", "StatusCode", Null, <<>>),
     Element("", "Obligation", Null, <<Attr("ObligationId", "o1")>>),
     Element("", "Obligation", Null, <<Attr("ObligationId", "o2")>>),
     Element("", "Advice", Null, <<Attr("AdviceId", "a1")>>),
     Element("", "parsererror", Some("unclosed tag"), <<>>)}

Prefixes == {"", "ns3"}

ResponseDocs == {WithPrefix(d, p) : d \in SeqsUpTo(ElementShapes, MaxElems), p \in Prefixes}

DecoderResponses == {Http(200, d) : d \in ResponseDocs} \cup {Http(500, <<>>), Http(0, <<>>)}

\* responses to a request for several resources: one <Result> each, with its
\* decision, its status if the PDP gives one, its obligations and advice
StatusMissing == "urn:oasis:names:tc:xacml:1.0:status:missing-attribute"

ResultBlock(decision, status, extras) ==
    <<Element("", "Result", Null, <<>>), Element("", "Decision", Some(decision), <<>>)>>
    \o (IF status = "" THEN <<>>
        ELSE <<Element("", "Status", Null, <<>>),
               Element("", "StatusCode", Null, <<Attr("Value", status)>>)>>)
    \o extras

ResultBlocks ==
    {ResultBlock(decision, status, extras) :
        decision \in {"Permit", "Deny"},
        status \in {"", StatusOk, StatusMissing},
        extras \in {<<>>,
                    <<Element("", "Obligation", Null, <<Attr("ObligationId", "o1")>>)>>,
                    <<Element("", "Obligation", Null, <<Attr("ObligationId", "o2")>>),
                      Element("", "Advice", Null, <<Attr("AdviceId", "a1")>>)>>}}

RECURSIVE Flatten(_)
Flatten(seqs) == IF seqs = <<>> THEN <<>> ELSE Head(seqs) \o Flatten(Tail(seqs))

ResultDocs ==
    {WithPrefix(<<Element("", "Response", Null, <<>>)>> \o Flatten(blocks), p) :
        blocks \in SeqsUpTo(ResultBlocks, MaxResults), p \in Prefixes}

DecoderQueries ==
    {[subject |-> Bag(SubjectBag), resource |-> Bag(PersonBag), resources |-> NoResources,
      action |-> Bag(ActionBag), environment |-> Undefined]}

DomainIds == {"d1"}

-----------------------------------------------------------------------------
(* AuthzForceClient.deleteDomain and healthCheck *)

deleteDomainSends(domainId) == HttpRequest("DELETE", "/domains/" \o domainId, "")

deleteDomain(domainId, resp) ==
    IF ~Resolves(resp)
    THEN Threw("deleteDomain",
               "Failed to delete domain " \o domainId \o ": " \o AxiosMessage(resp))
    ELSE Returned("deleteDomain", "undefined")

healthCheckSends == HttpRequest("GET", "/domains", "")

\* `return true` for every response axios resolves
healthCheckAnySuccess(resp, isText) == Returned("healthCheck", Resolves(resp))

\* isText: response.data is a string.  formatXml(response.data) is evaluated
\* for the debug line inside the try block, and xml.replace throws a TypeError
\* when axios has parsed the body into something that is not a string.
healthCheck(resp, isText) ==
    IF ~Resolves(resp) THEN Returned("healthCheck", FALSE)
    ELSE IF ~isText THEN Returned("healthCheck", FALSE)
    ELSE Returned("healthCheck", resp.status = 200)

-----------------------------------------------------------------------------
(* XacmlTestUtils.waitForCondition.  Times are in milliseconds.              *)
(*   pc        where the call stands: "idle" (no call), "test" (at the while *)
(*             test), "condition" (awaiting condition()), "sleep" (awaiting  *)
(*             the timer), "done" (returned)                                 *)
(*   log       the awaits completed so far, in order                         *)
(*   results   what the invocations of condition() returned, in order        *)
(*   exact     every timer so far fired on time and condition() took no time *)

NotWaiting ==
    [pc |-> "idle", startTime |-> 0, now |-> 0, timeout |-> 0, interval |-> 0,
     log |-> <<>>, results |-> <<>>, exact |-> TRUE, result |-> Null]

\* const startTime = Date.now()
waitForConditionStarts(timeout, interval, now) ==
    [NotWaiting EXCEPT !.pc = "test", !.startTime = now, !.now = now,
                       !.timeout = timeout, !.interval = interval]

\* while (Date.now() - startTime <= timeout)
LoopTestInclusive(w) ==
    IF w.now - w.startTime <= w.timeout
    THEN [w EXCEPT !.pc = "condition"]
    ELSE [w EXCEPT !.pc = "done", !.result = Some(FALSE)]

\* while (Date.now() - startTime < timeout) ... return false
LoopTest(w) ==
    IF w.now - w.startTime < w.timeout
    THEN [w EXCEPT !.pc = "condition"]
    ELSE [w EXCEPT !.pc = "done", !.result = Some(FALSE)]

\* `if (await condition()) break;` in place of `return true`
AfterConditionBreaks(w, value, took) ==
    [w EXCEPT !.now = w.now + took,
              !.log = Append(w.log, "condition"),
              !.results = Append(w.results, value),
              !.exact = w.exact /\ took = 0,
              !.pc = IF value THEN "done" ELSE "sleep",
              !.result = IF value THEN Some(FALSE) ELSE Null]

\* the loop goes back to its test without the timer
AfterConditionSpins(w, value, took) ==
    [w EXCEPT !.now = w.now + took,
              !.log = Append(w.log, "condition"),
              !.results = Append(w.results, value),
              !.exact = w.exact /\ took = 0,
              !.pc = IF value THEN "done" ELSE "test",
              !.result = IF value THEN Some(TRUE) ELSE Null]

\* if (await condition()) { return true; } : condition() returned value after
\* `took` milliseconds
AfterCondition(w, value, took) ==
    [w EXCEPT !.now = w.now + took,
              !.log = Append(w.log, "condition"),
              !.results = Append(w.results, value),
              !.exact = w.exact /\ took = 0,
              !.pc = IF value THEN "done" ELSE "sleep",
              !.result = IF value THEN Some(TRUE) ELSE Null]

\* setTimeout(resolve, timeout) in place of interval
AfterSleepOfTimeout(w, late) ==
    [w EXCEPT !.now = w.now + w.timeout + late,
              !.log = Append(w.log, "sleep"),
              !.exact = w.exact /\ late = 0,
              !.pc = "test"]

\* await new Promise(resolve => setTimeout(resolve, interval)) : the timer
\* fires `late` milliseconds after it is due
AfterSleep(w, late) ==
    [w EXCEPT !.now = w.now + w.interval + late,
              !.log = Append(w.log, "sleep"),
              !.exact = w.exact /\ late = 0,
              !.pc = "test"]

-----------------------------------------------------------------------------
(* XacmlTestUtils.cleanupDomains                                             *)
(*   pc        "idle" (no call), "waiting" (at await Promise.all), "done"    *)
(*   ids       the domainIds argument                                        *)
(*   issued    the requests client.deleteDomain has sent, in order           *)
(*   promises  cleanupPromises: "pending" or "fulfilled", per entry of ids   *)
(*   deletes   how each deleteDomain call ended (NoCall while in flight)     *)
(*   warned    the entries for which the catch block logged a warning        *)
(*   result    how cleanupDomains itself ended                               *)

NoCleanup ==
    [pc |-> "idle", ids |-> <<>>, issued |-> <<>>, promises |-> <<>>, deletes |-> <<>>,
     warned |-> {}, result |-> "pending"]

\* domainIds.map(async (domainId) => { try { await client.deleteDomain(domainId) ...
\* : every callback runs up to its await, so every delete is sent, in the
\* order of the list, before cleanupDomains waits for the first time
cleanupDomains(ids) ==
    [NoCleanup EXCEPT !.pc = "waiting",
                      !.ids = ids,
                      !.issued = [i \in 1..Len(ids) |-> deleteDomainSends(ids[i])],
                      !.promises = [i \in 1..Len(ids) |-> "pending"],
                      !.deletes = [i \in 1..Len(ids) |-> NoCall]]

\* without the try/catch around the delete: the promise of the entry rejects
DeleteSettlesUncaught(c, i, resp) ==
    LET how == deleteDomain(c.ids[i], resp)
    IN  [c EXCEPT !.deletes[i] = how,
                  !.promises[i] = IF how.kind = "threw" THEN "rejected" ELSE "fulfilled"]

\* the delete of entry i ends: `catch (error) { logger.warn(...) }`
DeleteSettles(c, i, resp) ==
    LET how == deleteDomain(c.ids[i], resp)
    IN  [c EXCEPT !.deletes[i] = how,
                  !.promises[i] = "fulfilled",
                  !.warned = IF how.kind = "threw" THEN c.warned \cup {i} ELSE c.warned]

\* await Promise.all(cleanupPromises) : it rejects as soon as one promise has
\* rejected and is fulfilled once all are
PromiseAll(c) ==
    IF \E i \in 1..Len(c.promises) : c.promises[i] = "rejected"
    THEN [c EXCEPT !.pc = "done", !.result = "rejected"]
    ELSE IF \A i \in 1..Len(c.promises) : c.promises[i] = "fulfilled"
    THEN [c EXCEPT !.pc = "done", !.result = "resolved"]
    ELSE c

-----------------------------------------------------------------------------
(* One AuthzForceClient and the calls in flight on it.  A call runs up to    *)
(* its `await this.axios...`, which sends the request, and goes on when the  *)
(* response is in; between the two any other call may start or go on.        *)
(*   client   the fields of the client object                                *)
(*   slots    the calls: "free", "awaiting" (request sent) or "settled"      *)

DefaultBaseUrl == "http://127.0.0.1:8080/authzforce-ce"

\* new AuthzForceClient(baseUrl)
constructor(baseUrl) ==
    [baseUrl |-> baseUrl,
     axios |-> [baseURL |-> baseUrl, timeout |-> 10000],
     namespaceResolver |-> "createNamespaceResolver"]

FreeSlot ==
    [pc |-> "free", op |-> "none", domainId |-> "", request |-> Null, response |-> Null,
     how |-> NoCall]

CallOps ==
    {"createDomain", "deleteDomain", "addPolicy", "setActivePolicy", "evaluateRequest",
     "healthCheck"}

TheQuery ==
    [subject |-> Bag(<<Pair("subject-id", "system-a")>>), resource |-> Undefined,
     resources |-> NoResources, action |-> Undefined, environment |-> Undefined]
ThePolicy == "<PolicySet PolicySetId=\"root\" Version=\"1.0\">"

\* the request a call sends before its await
SendsOf(op, domainId) ==
    CASE op = "createDomain" -> createDomainSends(Null)
      [] op = "deleteDomain" -> deleteDomainSends(domainId)
      [] op = "addPolicy" -> addPolicySends(domainId, ThePolicy)
      [] op = "setActivePolicy" -> setActivePolicySends(domainId, Some("root"))
      [] op = "evaluateRequest" -> evaluateRequestSends(domainId, TheQuery)
      [] op = "healthCheck" -> healthCheckSends

\* how a call ends once its response is in
EndOf(op, domainId, resp) ==
    CASE op = "createDomain" -> createDomain(Null, resp)
      [] op = "deleteDomain" -> deleteDomain(domainId, resp)
      [] op = "addPolicy" -> addPolicy(domainId, ThePolicy, extractPolicyId(ThePolicy), resp)
      [] op = "setActivePolicy" -> setActivePolicy(domainId, Some("root"), resp)
      [] op = "evaluateRequest" -> evaluateRequest(domainId, TheQuery, resp)
      [] op = "healthCheck" -> healthCheck(resp, TRUE)

\* a call starts in slot i and runs up to its await
CallBegins(c, i, op, domainId) ==
    [c EXCEPT !.slots[i] =
        [FreeSlot EXCEPT !.pc = "awaiting", !.op = op, !.domainId = domainId,
                         !.request = Some(SendsOf(op, domainId))]]

\* `this.cached = this.cached || response` : the first response to come in is
\* kept in a field of the client and decoded by every call
CallResumesCached(c, i, resp) ==
    LET kept == IF "cached" \in DOMAIN c.client THEN c.client.cached ELSE resp
    IN  [c EXCEPT !.client = [f \in DOMAIN c.client \cup {"cached"} |->
                                 IF f = "cached" THEN kept ELSE c.client[f]],
                  !.slots[i] = [c.slots[i] EXCEPT !.pc = "settled",
                                                  !.response = Some(resp),
                                                  !.how = EndOf(c.slots[i].op,
                                                                c.slots[i].domainId, kept)]]

\* the response of the call in slot i is in and the call runs to its end: it
\* works on its own `response` and on nothing else
CallResumes(c, i, resp) ==
    [c EXCEPT !.slots[i] = [c.slots[i] EXCEPT !.pc = "settled",
                                              !.response = Some(resp),
                                              !.how = EndOf(c.slots[i].op,
                                                            c.slots[i].domainId, resp)]]

-----------------------------------------------------------------------------
(* formatXML of scripts/build-xacml.js.  Indices are those of JavaScript:    *)
(* the first character of a string is at index 0, and -1 means `not found`.  *)
(*   pc           "idle" (no call), "loop" (at the while test), "done"       *)
(*                (returned), "threw"                                        *)
(*   units        what the input was written from (see FormatUnits)          *)
(*   i, indentLevel, result   the locals of the function                     *)
(*   branch       the branch the last iteration took                         *)
(*   before       indentLevel before the last iteration                      *)

NoText ==
    [pc |-> "idle", units |-> <<>>, xmlString |-> "", i |-> 0, indentLevel |-> 0,
     result |-> <<>>, branch |-> "none", before |-> 0, message |-> ""]

\* s.substring(a, b), for 0 <= a <= b <= s.length
Substring(s, a, b) == SubSeq(s, a + 1, b)

\* s.indexOf(needle, from)
IndexOf(s, needle, from) ==
    LET hits == {k \in from..(Len(s) - Len(needle)) :
                    SubSeq(s, k + 1, k + Len(needle)) = needle}
    IN  IF hits = {} THEN -1 ELSE CHOOSE k \in hits : \A j \in hits : k <= j

HasPrefix(s, p) == Len(s) >= Len(p) /\ SubSeq(s, 1, Len(p)) = p
HasSuffix(s, p) == Len(s) >= Len(p) /\ SubSeq(s, Len(s) - Len(p) + 1, Len(s)) = p

\* the characters of the class [\w:-]
NameChars == "abcdefghijklmnopqrstuvwxyzABCDEFGHIJKLMNOPQRSTUVWXYZ0123456789_:-"
IsNameChar(c) == \E k \in 1..Len(NameChars) : SubSeq(NameChars, k, k) = c

\* fullTag.match(/^<([\w:-]+)/) : the group, or Null without a match
TagName(fullTag) ==
    LET stops == {k \in 2..(Len(fullTag) + 1) :
                     k = Len(fullTag) + 1 \/ ~IsNameChar(SubSeq(fullTag, k, k))}
        stop == CHOOSE k \in stops : \A j \in stops : k <= j
    IN  IF ~HasPrefix(fullTag, "<") \/ stop = 2 THEN Null
        ELSE Some(SubSeq(fullTag, 2, stop - 1))

\* the characters String.prototype.trim removes
IsSpace(c) == c \in {" ", "\t", "\n", "\r"}
\* s.trim() is not the empty string
TrimIsTruthy(s) == \E k \in 1..Len(s) : ~IsSpace(SubSeq(s, k, k))

\* '  '.repeat(n), for n >= 0
RECURSIVE Indent(_)
Indent(n) == IF n <= 0 THEN "" ELSE "  " \o Indent(n - 1)

\* result.join('\n')
RECURSIVE Join(_)
Join(lines) ==
    IF lines = <<>> THEN ""
    ELSE IF Len(lines) = 1 THEN lines[1]
    ELSE lines[1] \o "\n" \o Join(Tail(lines))

\* const result = []; let indentLevel = 0; let i = 0;
formatXMLStarts(units, xmlString) ==
    [NoText EXCEPT !.pc = "loop", !.units = units, !.xmlString = xmlString]

\* `break` and the end of the loop: return result.join('\n')
FormatReturns(f) == [f EXCEPT !.pc = "done"]

\* xmlString.substring(i, tagEnd + 1) : the text before the tag taken along
FullTagFromIndex(s, i, tagStart, tagEnd) == Substring(s, i, tagEnd + 1)

\* const fullTag = xmlString.substring(tagStart, tagEnd + 1)
FullTag(s, i, tagStart, tagEnd) == Substring(s, tagStart, tagEnd + 1)

\* `i = tagStart` at the end of the loop body
AfterTagStart(tagStart, tagEnd) == tagStart

\* i = tagEnd + 1
AfterTag(tagStart, tagEnd) == tagEnd + 1

\* one pass through the body of `while (i < xmlString.length)`
FormatIteration(f) ==
    LET s == f.xmlString
        tagStart == IndexOf(s, "<", f.i)
        tagEnd == IndexOf(s, ">", tagStart)
        fullTag == FullTag(s, f.i, tagStart, tagEnd)
        tagName == TagName(fullTag)
        closingTag == "</" \o Val(tagName) \o ">"
        closingTagStart == IndexOf(s, closingTag, tagEnd + 1)
        innerContent == Substring(s, tagEnd + 1, closingTagStart)
        hasOnlyText == IndexOf(innerContent, "<", 0) = -1
        g == [f EXCEPT !.before = f.indentLevel]
    IN  IF ~(f.i < Len(s)) THEN FormatReturns(f)
        ELSE IF tagStart = -1 THEN FormatReturns(f)
        ELSE IF tagEnd = -1 THEN FormatReturns(f)
        ELSE IF HasPrefix(fullTag, "<?") \/ HasPrefix(fullTag, "<!--")
        THEN [g EXCEPT !.result = Append(f.result, fullTag),
                       !.branch = "declaration",
                       !.i = AfterTag(tagStart, tagEnd)]
        ELSE IF HasPrefix(fullTag, "</")
        THEN IF f.indentLevel - 1 < 0
             THEN [g EXCEPT !.pc = "threw",
                            !.indentLevel = f.indentLevel - 1,
                            !.branch = "closing",
                            !.message = "RangeError: Invalid count value: -1"]
             ELSE [g EXCEPT !.indentLevel = f.indentLevel - 1,
                            !.result = Append(f.result, Indent(f.indentLevel - 1) \o fullTag),
                            !.branch = "closing",
                            !.i = AfterTag(tagStart, tagEnd)]
        ELSE IF HasSuffix(fullTag, "/>")
        THEN [g EXCEPT !.result = Append(f.result, Indent(f.indentLevel) \o fullTag),
                       !.branch = "self-closing",
                       !.i = AfterTag(tagStart, tagEnd)]
        ELSE IF IsNull(tagName)
        THEN [g EXCEPT !.pc = "threw",
                       !.branch = "opening",
                       !.message = "Failed to extract tag name from XML."]
        ELSE IF closingTagStart # -1 /\ hasOnlyText /\ TrimIsTruthy(innerContent)
        THEN [g EXCEPT !.result = Append(f.result,
                                     Indent(f.indentLevel) \o fullTag \o innerContent
                                     \o closingTag),
                       !.branch = "inline",
                       !.i = closingTagStart + Len(closingTag)]
        ELSE [g EXCEPT !.result = Append(f.result, Indent(f.indentLevel) \o fullTag),
                       !.indentLevel = f.indentLevel + 1,
                       !.branch = "opening",
                       !.i = AfterTag(tagStart, tagEnd)]

\* formatXML(xmlString) from the state f on: the loop run to its end
RECURSIVE FormatRun(_)
FormatRun(f) == IF f.pc = "loop" THEN FormatRun(FormatIteration(f)) ELSE f

\* formatXML(xmlString) : the text returned, or Null when the call throws
formatXML(xmlString) ==
    LET f == FormatRun(formatXMLStarts(<<>>, xmlString))
    IN  IF f.pc = "done" THEN Some(Join(f.result)) ELSE Null

-----------------------------------------------------------------------------
(* test/role-based-policy.test.js : one run of the file.  jest runs          *)
(* beforeAll, then beforeEach and the test for every test, then afterAll,    *)
(* one after the other; a hook that throws fails its test, and afterAll      *)
(* runs whatever failed.                                                     *)
(*   pc              "idle", "beforeEach", "deploy", "test", "afterAll",     *)
(*                   "cleaning", "done"                                      *)
(*   createdDomains  the list of the describe block                          *)
(*   domainId        the variable of the describe block                      *)
(*   tests           the tests started so far                                *)

MaxTests == 2

NoSuite == [pc |-> "idle", createdDomains |-> <<>>, domainId |-> "", tests |-> 0]

\* createdDomains = [domainId] : the list holds the last domain only
Replaced(createdDomains, domainId) == <<domainId>>

\* createdDomains.push(domainId)
Pushed(createdDomains, domainId) == Append(createdDomains, domainId)

\* beforeAll: `if (!isHealthy) throw`, else the tests are run
AfterBeforeAll(s, isHealthy) ==
    [s EXCEPT !.pc = IF isHealthy THEN "beforeEach" ELSE "afterAll"]

\* beforeEach, up to createdDomains.push: createDomain returned or threw
AfterCreateDomain(s, how) ==
    IF how.kind = "threw"
    THEN [s EXCEPT !.pc = "beforeEach", !.tests = s.tests + 1]
    ELSE [s EXCEPT !.pc = "deploy", !.tests = s.tests + 1,
                   !.domainId = Val(how.value),
                   !.createdDomains = Pushed(s.createdDomains, Val(how.value))]

\* afterAll: `if (client && createdDomains.length > 0)`
AfterAllStarts(s) ==
    [s EXCEPT !.pc = IF Len(s.createdDomains) > 0 THEN "cleaning" ELSE "done"]

-----------------------------------------------------------------------------
(* The PDP the client talks to: its domains and the root policy of each.     *)
(* It applies a request exactly when it answers it with a 2xx status.        *)

PdpDomainIds == {"d1", "d2"}
PolicyIds == {"root", "p1"}

\* roots: the pairs <<domain, policyId>> of the active root policies
\* lastSet: for each domain, the policyId of the caller's most recent
\*          setActivePolicy that returned
NoPdp == [domains |-> {}, roots |-> {}, lastSet |-> [d \in PdpDomainIds |-> Null]]

\* the text of s between the first `open` and the `close` that follows it
Between(s, open, close) ==
    LET starts == {i \in 1..(Len(s) - Len(open) + 1) : SubSeq(s, i, i + Len(open) - 1) = open}
        from == (CHOOSE i \in starts : \A j \in starts : i <= j) + Len(open)
        ends == {i \in from..(Len(s) - Len(close) + 1) : SubSeq(s, i, i + Len(close) - 1) = close}
        to == CHOOSE i \in ends : \A j \in ends : i <= j
    IN  IF starts = {} \/ ends = {} THEN "" ELSE SubSeq(s, from, to - 1)

RootRefOf(body) == Between(body, "<rootPolicyRefExpression>", "</rootPolicyRefExpression>")

\* the domain a request is addressed to, if any
PdpAddressed(req) ==
    {d \in PdpDomainIds :
        \/ req.url = "/domains/" \o d
        \/ /\ Len(req.url) >= Len("/domains/" \o d \o "/")
           /\ SubSeq(req.url, 1, Len("/domains/" \o d \o "/")) = "/domains/" \o d \o "/"}

PdpAnswer(resp, domains, roots) == [resp |-> resp, domains |-> domains, roots |-> roots]

\* what the PDP may do with a request it has accepted
PdpAccepts(state, req) ==
    IF req.method = "POST" /\ req.url = "/domains"
    THEN {PdpAnswer(Http(200, <<Element("ns2", "link", Null, <<Attr("href", d)>>)>>),
                    state.domains \cup {d}, state.roots) :
            d \in PdpDomainIds \ state.domains}
    ELSE IF req.method = "GET" /\ req.url = "/domains"
    THEN {PdpAnswer(Http(s, <<Element("ns2", "resources", Null, <<>>)>>),
                    state.domains, state.roots) : s \in {200, 204}}
    ELSE IF PdpAddressed(req) \cap state.domains = {} THEN {}
    ELSE LET d == CHOOSE x \in PdpAddressed(req) : x \in state.domains
         IN  IF req.method = "DELETE" /\ req.url = "/domains/" \o d
             THEN {PdpAnswer(Http(200, <<>>), state.domains \ {d},
                             {pr \in state.roots : pr[1] # d})}
             ELSE IF req.method = "PUT" /\ req.url = "/domains/" \o d \o "/pap/pdp.properties"
             THEN {PdpAnswer(Http(200, <<>>), state.domains,
                             {pr \in state.roots : pr[1] # d} \cup {<<d, RootRefOf(req.body)>>})}
             ELSE IF req.method = "POST" /\ req.url = "/domains/" \o d \o "/pap/policies"
             THEN {PdpAnswer(Http(200, <<Element("ns2", "link", Null, <<Attr("href", "root/1.0")>>)>>),
                             state.domains, state.roots)}
             ELSE IF req.method = "POST" /\ req.url = "/domains/" \o d \o "/pdp"
             THEN {PdpAnswer(Http(200, PermitResponse), state.domains, state.roots)}
             ELSE {}

\* every way a request may end: accepted, refused, or lost on the way
PdpAnswers(state, req) ==
    PdpAccepts(state, req)
    \cup {PdpAnswer(Http(s, <<>>), state.domains, state.roots) : s \in {0, 404, 500}}

\* the caller's record of the root it set, after a call on domainId ended as `how`
LastSetAfter(state, domains, domainId, policyId, how) ==
    [d \in PdpDomainIds |->
        IF d \notin domains THEN Null
        ELSE IF d = domainId /\ how.op = "setActivePolicy" /\ how.kind = "returned"
        THEN Some(policyId)
        ELSE state.lastSet[d]]

\* the client as constructed, no call in flight
NoCalls == [client |-> constructor(DefaultBaseUrl), slots |-> [i \in 1..MaxCalls |-> FreeSlot]]

-----------------------------------------------------------------------------
(* Actions *)

Init ==
    /\ options = Null
    /\ request = Null
    /\ sent = <<>>
    /\ response = Null
    /\ outcome = NoCall
    /\ pdp = NoPdp
    /\ wait = NotWaiting
    /\ cleanup = NoCleanup
    /\ calls = NoCalls
    /\ fmt = NoText
    /\ suite = NoSuite

\* a test calls XacmlTestUtils.createRequest(opts), for any opts of optionSet
CreateRequest(optionSet) ==
    /\ IsNull(request)
    /\ outcome.kind = "none"
    /\ \E opts \in optionSet, now \in Clock :
        /\ options' = Some(opts)
        /\ request' = Some(createRequest(opts, now))
    /\ UNCHANGED <<sent, response, outcome>>
    /\ UNCHANGED added

\* a caller writes the request object itself, any of querySet
WriteRequest(querySet) ==
    /\ IsNull(request)
    /\ outcome.kind = "none"
    /\ \E q \in querySet : request' = Some(q)
    /\ UNCHANGED <<options, sent, response, outcome>>
    /\ UNCHANGED added

\* client.evaluateRequest(domainId, request), the PDP answering any of responseSet
EvaluateRequest(responseSet) ==
    /\ ~IsNull(request)
    /\ outcome.kind = "none"
    /\ \E domainId \in DomainIds, resp \in responseSet :
        /\ sent' = <<evaluateRequestSends(domainId, Val(request))>>
        /\ response' = Some(resp)
        /\ outcome' = evaluateRequest(domainId, Val(request), resp)
    /\ UNCHANGED <<options, request>>
    /\ UNCHANGED added

\* client.parseDecisionResponse(responseXml), for any document of docSet
ParseDecisionResponse(docSet) ==
    /\ outcome.kind = "none"
    /\ \E doc \in docSet :
        /\ response' = Some(Http(200, doc))
        /\ outcome' = parseDecisionResponse(doc)
    /\ UNCHANGED <<options, request, sent>>
    /\ UNCHANGED added

\* the test function ends; the next one starts afresh
TestEnds ==
    /\ outcome.kind # "none"
    /\ options' = Null
    /\ request' = Null
    /\ sent' = <<>>
    /\ response' = Null
    /\ outcome' = NoCall
    /\ UNCHANGED added

NextEncode ==
    \/ CreateRequest(Queries)
    \/ WriteRequest(Queries)
    \/ EvaluateRequest(EncoderResponses)
    \/ TestEnds

SpecEncode == Init /\ [][NextEncode]_vars

NextDecode ==
    \/ WriteRequest(DecoderQueries)
    \/ EvaluateRequest(DecoderResponses)
    \/ ParseDecisionResponse(ResponseDocs \cup ResultDocs)
    \/ TestEnds

SpecDecode == Init /\ [][NextDecode]_vars

-----------------------------------------------------------------------------
(* Properties of the encoder, checked under SpecEncode *)

\* evaluateRequest has sent the encoded request
Evaluated == outcome.op = "evaluateRequest" /\ Len(sent) = 1
Encoded == sent[1].body

Categories == {"subject", "resource", "action"}
CategoryUrn(cat) ==
    CASE cat = "subject" -> SubjectCategory
      [] cat = "resource" -> ResourceCategory
      [] cat = "action" -> ActionCategory

RECURSIVE ConcatBags(_)
ConcatBags(list) == IF list = <<>> THEN <<>> ELSE Head(list) \o ConcatBags(Tail(list))

\* the key/value pairs a query holds for a category, in the order of the query
PairsOf(req, cat) ==
    CASE cat = "subject" -> ParamDefault(req.subject)
      [] cat = "resource" -> ParamDefault(req.resource) \o ConcatBags(req.resources.list)
      [] cat = "action" -> ParamDefault(req.action)

WrappersOf(doc, cat) == SelectSeq(doc.Attributes, LAMBDA w : w.Category = CategoryUrn(cat))

RECURSIVE SumLen(_)
SumLen(seqs) == IF seqs = <<>> THEN 0 ELSE Len(Head(seqs)) + SumLen(Tail(seqs))

\* the number of <Attribute> elements of the document
AttributeCount(doc) ==
    SumLen([i \in 1..Len(doc.Attributes) |-> doc.Attributes[i].Attribute])

\* the number of <Attribute> elements with this AttributeId inside the wrappers of cat
Occurrences(doc, cat, id) ==
    SumLen([i \in 1..Len(WrappersOf(doc, cat)) |->
                SelectSeq(WrappersOf(doc, cat)[i].Attribute, LAMBDA a : a.AttributeId = id)])

StartsWith(s, p) == Len(s) >= Len(p) /\ SubSeq(s, 1, Len(p)) = p

\* C1: the encoded request holds exactly one <Attributes> wrapper for each
\* category whose bags hold a pair, and none for a category whose bags are all
\* empty or absent, whatever the keys are named.
C1_OneWrapperPerNonEmptyCategory ==
    Evaluated =>
        \A cat \in Categories :
            Len(WrappersOf(Encoded, cat)) = (IF PairsOf(Val(request), cat) = <<>> THEN 0 ELSE 1)

\* C2: every pair (k, v) of a bag yields exactly one <Attribute>, with the
\* AttributeId of its category, inside the wrapper of its own category and in
\* no other wrapper, and the document holds as many <Attribute> elements as
\* the query holds pairs.
C2_OneAttributePerPair ==
    Evaluated =>
        /\ \A cat \in Categories :
            \A i \in 1..Len(PairsOf(Val(request), cat)) :
                LET id == "urn:oasis:names:tc:xacml:1.0:" \o cat \o ":"
                            \o PairsOf(Val(request), cat)[i].key
                    same == {j \in 1..Len(PairsOf(Val(request), cat)) :
                                PairsOf(Val(request), cat)[j].key = PairsOf(Val(request), cat)[i].key}
                IN  /\ Occurrences(Encoded, cat, id) = Cardinality(same)
                    /\ \A other \in Categories \ {cat} : Occurrences(Encoded, other, id) = 0
        /\ AttributeCount(Encoded) =
             Len(PairsOf(Val(request), "subject")) + Len(PairsOf(Val(request), "resource"))
             + Len(PairsOf(Val(request), "action"))

\* C3: a request built by createRequest from options with a resources list
\* keeps that list, and evaluateRequest on it encodes one resource <Attribute>
\* per pair of the list.
C3_CreateRequestKeepsResources ==
    (~IsNull(options) /\ Val(options).resources.defined) =>
        /\ Val(request).resources = Val(options).resources
        /\ Evaluated =>
            \A i \in 1..Len(ConcatBags(Val(options).resources.list)) :
                LET e == ConcatBags(Val(options).resources.list)[i]
                IN  \E w \in 1..Len(WrappersOf(Encoded, "resource")) :
                        \E a \in 1..Len(WrappersOf(Encoded, "resource")[w].Attribute) :
                            LET attr == WrappersOf(Encoded, "resource")[w].Attribute[a]
                            IN  /\ attr.AttributeId = "urn:oasis:names:tc:xacml:1.0:resource:" \o e.key
                                /\ attr.AttributeValue.text = e.value

\* the <Attribute> elements of the resource wrapper that carry a resource AttributeId
ResourceAttributes(doc) ==
    SelectSeq(WrappersOf(doc, "resource")[1].Attribute,
              LAMBDA a : StartsWith(a.AttributeId, "urn:oasis:names:tc:xacml:1.0:resource:"))

\* C4: for a query with a resources array, the encoded request holds a single
\* resource wrapper, and its resource attributes are, in order, one per pair of
\* the resource bag and then one per pair of every bag of the array: pairs of
\* different bags with the same key stay separate elements with their own value.
C4_ResourcesKeptSeparate ==
    (Evaluated /\ Val(request).resources.defined /\ PairsOf(Val(request), "resource") # <<>>) =>
        /\ Len(WrappersOf(Encoded, "resource")) = 1
        /\ Len(ResourceAttributes(Encoded)) = Len(PairsOf(Val(request), "resource"))
        /\ \A i \in 1..Len(PairsOf(Val(request), "resource")) :
            /\ ResourceAttributes(Encoded)[i].AttributeId =
                 "urn:oasis:names:tc:xacml:1.0:resource:" \o PairsOf(Val(request), "resource")[i].key
            /\ ResourceAttributes(Encoded)[i].AttributeValue.text =
                 PairsOf(Val(request), "resource")[i].value

\* a request whose resources array holds two bags with the same key has been encoded
C4_Witness ==
    /\ Evaluated
    /\ Val(request).resources = Resources(<<PersonBag, NameBag>>)
    /\ Len(ResourceAttributes(Encoded)) >= 2
    /\ \E i, j \in 1..Len(ResourceAttributes(Encoded)) :
        /\ i < j
        /\ ResourceAttributes(Encoded)[i].AttributeId = ResourceAttributes(Encoded)[j].AttributeId
        /\ ResourceAttributes(Encoded)[i].AttributeValue.text = "urn:klf:ds:person"
        /\ ResourceAttributes(Encoded)[j].AttributeValue.text = "urn:klf:ds:field:person.name"

-----------------------------------------------------------------------------
(* Properties of the decoder, checked under SpecDecode *)

\* the last call decoded a response body
Decoded ==
    /\ outcome.op \in {"parseDecisionResponse", "evaluateRequest"}
    /\ ~IsNull(response)
    /\ Resolves(Val(response))
Body == Val(response).data

WellFormed(doc) == \A i \in 1..Len(doc) : doc[i].local # "parsererror"
DecisionElements(doc) == {i \in 1..Len(doc) : doc[i].local = "Decision"}
StatusCodeValues(doc) ==
    {i \in 1..Len(doc) :
        doc[i].local = "StatusCode" /\ \E a \in 1..Len(doc[i].attrs) : doc[i].attrs[a].name = "Value"}
First(S) == CHOOSE i \in S : \A j \in S : i <= j

C6_DecisionIsOneOfFour ==
    (Decoded /\ outcome.kind = "returned") => Val(outcome.value).decision \in DecisionNames

Ids(elements) == [i \in 1..Len(elements) |-> elements[i].attrs]

\* C7: decoding a response gives the same decision, the same status and the
\* same obligations and advice, in number and order, as decoding the same
\* response written without any namespace prefix.
C7_PrefixIndependent ==
    Decoded =>
        LET plain == parseDecisionResponse(WithPrefix(Body, ""))
        IN  /\ outcome.kind = plain.kind
            /\ outcome.kind = "returned" =>
                /\ Val(outcome.value).decision = Val(plain.value).decision
                /\ Val(outcome.value).status = Val(plain.value).status
                /\ Ids(Val(outcome.value).obligations) = Ids(Val(plain.value).obligations)
                /\ Ids(Val(outcome.value).advice) = Ids(Val(plain.value).advice)

\* a response written with the prefix ns3: has been decoded to a decision and two obligations
C7_Witness ==
    /\ Decoded
    /\ outcome.op = "parseDecisionResponse"
    /\ Len(Body) > 0
    /\ \A i \in 1..Len(Body) : Body[i].prefix = "ns3"
    /\ outcome.kind = "returned"
    /\ Val(outcome.value).decision = "Permit"
    /\ Len(Val(outcome.value).obligations) = 2

\* C8: the status returned is the Value attribute of the StatusCode element,
\* the attribute's value alone, and null without one; with no Obligation or
\* Advice element the record is {decision, status, obligations: [], advice: []}.
C8_StatusIsAttributeValue ==
    (Decoded /\ outcome.kind = "returned") =>
        /\ Val(outcome.value).status =
             (IF StatusCodeValues(Body) = {} THEN Null
              ELSE LET e == Body[First(StatusCodeValues(Body))]
                   IN  Some(e.attrs[CHOOSE a \in 1..Len(e.attrs) : e.attrs[a].name = "Value"].value))
        /\ (\A i \in 1..Len(Body) : Body[i].local \notin {"Obligation", "Advice"}) =>
             /\ Val(outcome.value).obligations = <<>>
             /\ Val(outcome.value).advice = <<>>

-----------------------------------------------------------------------------
(* The inputs of the lifecycle runs *)

PolicyDocs ==
    {"<PolicySet PolicySetId=\"root\" Version=\"1.0\">",
     "<Policy PolicyId=\"p1\" Version=\"1.0\">",
     "<Policy PolicyId=\"p1\"><PolicySetIdReference>",
     "<Policy Version=\"1.0\">",
     "<Policy PolicyId=\"\">"}

LinkShapes ==
    {Element("", "link", Null, <<Attr("rel", "item"), Attr("href", "root/1.0")>>),
     Element("", "link", Null, <<Attr("href", "d1")>>),
     Element("", "link", Null, <<Attr("href", "")>>),
     Element("", "link", Null, <<Attr("href", "root/")>>),
     Element("", "link", Null, <<Attr("rel", "item")>>),
     Element("", "resources", Null, <<>>),
     Element("", "parsererror", Some("unclosed tag"), <<>>)}

LinkDocs == {WithPrefix(d, p) : d \in SeqsUpTo(LinkShapes, MaxLinkElems), p \in {"", "ns2"}}

LinkResponses == {Http(200, d) : d \in LinkDocs} \cup {Http(404, <<>>), Http(0, <<>>)}

\* XacmlTestUtils.generateDomainId(prefix)
GeneratedIds == {"data-driven-1767225600000-k3x9ab"}

CallerDomainIds == {Null, Some(""), Some("my-domain")}

Created == Http(200, <<Element("ns2", "link", Null, <<Attr("href", "d1")>>)>>)
Uploaded == Http(200, <<Element("ns2", "link", Null, <<Attr("href", "root/1.0")>>)>>)
HookResponses == {Created, Uploaded, Http(200, <<>>), Http(500, <<>>)}

-----------------------------------------------------------------------------
(* Actions of the lifecycle runs *)

\* client.createDomain(domainId)
CreateDomain ==
    /\ outcome.kind = "none"
    /\ \E domainId \in CallerDomainIds, resp \in LinkResponses :
        /\ sent' = <<createDomainSends(domainId)>>
        /\ response' = Some(resp)
        /\ outcome' = createDomain(domainId, resp)
    /\ UNCHANGED <<options, request>>
    /\ UNCHANGED added

\* client.addPolicy(domainId, policyXml, XacmlTestUtils.extractPolicyId(policyXml))
AddPolicy ==
    /\ outcome.kind = "none"
    /\ \E domainId \in DomainIds, policyXml \in PolicyDocs, resp \in LinkResponses :
        /\ sent' = <<addPolicySends(domainId, policyXml)>>
        /\ response' = Some(resp)
        /\ outcome' = addPolicy(domainId, policyXml, extractPolicyId(policyXml), resp)
    /\ UNCHANGED <<options, request>>
    /\ UNCHANGED added

\* client.setActivePolicy(domainId, policyId)
SetActivePolicy ==
    /\ outcome.kind = "none"
    /\ \E domainId \in DomainIds, policyId \in {Null, Some("root")},
          resp \in {Http(200, <<>>), Http(400, <<>>), Http(0, <<>>)} :
        /\ sent' = <<setActivePolicySends(domainId, policyId)>>
        /\ response' = Some(resp)
        /\ outcome' = setActivePolicy(domainId, policyId, resp)
    /\ UNCHANGED <<options, request>>
    /\ UNCHANGED added

Hook(ran) ==
    /\ sent' = ran.sent
    /\ response' = ran.response
    /\ outcome' = ran.outcome

\* the beforeEach hook of test/data-driven.test.js runs
DataDrivenBeforeEach ==
    /\ outcome.kind = "none"
    /\ \E id \in GeneratedIds, policyXml \in PolicyDocs, r1, r2, r3 \in HookResponses :
        Hook(dataDrivenBeforeEach(id, policyXml, r1, r2, r3))
    /\ UNCHANGED <<options, request>>
    /\ UNCHANGED added

\* the beforeEach hook of test/role-based-policy.test.js runs
RoleBasedBeforeEach ==
    /\ outcome.kind = "none"
    /\ \E id \in GeneratedIds, policyXml \in PolicyDocs, r1, r2, r3 \in HookResponses :
        Hook(roleBasedBeforeEach(id, policyXml, r1, r2, r3))
    /\ UNCHANGED <<options, request>>
    /\ UNCHANGED added

NextLifecycle ==
    \/ DataDrivenBeforeEach
    \/ RoleBasedBeforeEach
    \/ CreateDomain
    \/ AddPolicy
    \/ SetActivePolicy
    \/ TestEnds

SpecLifecycle == Init /\ [][NextLifecycle]_vars

-----------------------------------------------------------------------------
(* Properties of the lifecycle calls, checked under SpecLifecycle *)

EndsWith(s, suffix) ==
    Len(s) >= Len(suffix) /\ SubSeq(s, Len(s) - Len(suffix) + 1, Len(s)) = suffix

IsUpload(req) == req.method = "POST" /\ EndsWith(req.url, "/pap/policies")

\* C9: no policy upload (POST /domains/{id}/pap/policies) is issued for a
\* policy document from which no policy id can be extracted.
C9_NoUploadWithoutPolicyId ==
    \A i \in 1..Len(sent) : IsUpload(sent[i]) => ~IsNull(extractPolicyId(sent[i].body))

\* the response elements from which createDomain and addPolicy may take the href
LinksWithHref(doc) ==
    {i \in 1..Len(doc) :
        doc[i].local = "link" /\ \E a \in 1..Len(doc[i].attrs) : doc[i].attrs[a].name = "href"}
HrefOf(e) == e.attrs[CHOOSE a \in 1..Len(e.attrs) : e.attrs[a].name = "href"].value

IsLastSegmentOf(v, href) ==
    /\ v # ""
    /\ ~Includes(v, "/")
    /\ EndsWith(href, v)
    /\ Len(href) > Len(v) => SubSeq(href, Len(href) - Len(v), Len(href) - Len(v)) = "/"

\* C10: createDomain and addPolicy return the last '/'-separated segment of
\* the href of the response's link element; without a link element, or with an
\* href that is empty or ends in '/', the call throws and returns nothing.
C10_ReturnsLastSegmentOrThrows ==
    (outcome.op \in {"createDomain", "addPolicy"} /\ ~IsNull(response)) =>
        LET r == Val(response)
            links == LinksWithHref(r.data)
        IN  /\ outcome.kind \in {"returned", "threw"}
            /\ outcome.kind = "threw" => IsNull(outcome.value)
            /\ outcome.kind = "returned" =>
                /\ Resolves(r)
                /\ links # {}
                /\ IsLastSegmentOf(Val(outcome.value), HrefOf(r.data[First(links)]))
            /\ (Resolves(r) /\ (links = {} \/ HrefOf(r.data[First(links)]) = ""
                                \/ EndsWith(HrefOf(r.data[First(links)]), "/")))
                 => outcome.kind = "threw"

\* addPolicy has returned the version "1.0" of a link ending in root/1.0
C10_Witness ==
    /\ outcome.op = "addPolicy"
    /\ outcome.kind = "returned"
    /\ Val(outcome.value) = "1.0"
    /\ LinksWithHref(Val(response).data) # {}
    /\ HrefOf(Val(response).data[First(LinksWithHref(Val(response).data))]) = "root/1.0"

-----------------------------------------------------------------------------
(* Runs against the PDP: the lifecycle and evaluation calls of one client,   *)
(* each answered by the PDP in the state the earlier calls left it in.       *)

\* the responses a request may get from the PDP as it is
PdpResponses(req) == {ans.resp : ans \in PdpAnswers(pdp, req)}

\* one call: the request goes out, the PDP answers, the call ends as ends[answer]
PdpCall(req, ends, domainId, policyId) ==
    /\ outcome.kind = "none"
    /\ \E ans \in PdpAnswers(pdp, req) :
        /\ sent' = <<req>>
        /\ response' = Some(ans.resp)
        /\ outcome' = ends[ans.resp]
        /\ pdp' = [domains |-> ans.domains, roots |-> ans.roots,
                   lastSet |-> LastSetAfter(pdp, ans.domains, domainId, policyId,
                                            ends[ans.resp])]
    /\ UNCHANGED <<options, request, wait, cleanup, calls, fmt, suite>>

PdpCreateDomain ==
    LET req == createDomainSends(Null)
    IN  PdpCall(req, [r \in PdpResponses(req) |-> createDomain(Null, r)], "", "")

PdpDeleteDomain ==
    \E d \in PdpDomainIds :
        LET req == deleteDomainSends(d)
        IN  PdpCall(req, [r \in PdpResponses(req) |-> deleteDomain(d, r)], d, "")

PdpAddPolicy ==
    \E d \in PdpDomainIds :
        LET req == addPolicySends(d, ThePolicy)
        IN  PdpCall(req, [r \in PdpResponses(req) |->
                             addPolicy(d, ThePolicy, extractPolicyId(ThePolicy), r)], d, "")

PdpSetActivePolicy ==
    \E d \in PdpDomainIds, policyId \in PolicyIds :
        LET req == setActivePolicySends(d, Some(policyId))
        IN  PdpCall(req, [r \in PdpResponses(req) |-> setActivePolicy(d, Some(policyId), r)],
                    d, policyId)

PdpEvaluateRequest ==
    \E d \in PdpDomainIds :
        LET req == evaluateRequestSends(d, TheQuery)
        IN  PdpCall(req, [r \in PdpResponses(req) |-> evaluateRequest(d, TheQuery, r)], d, "")

PdpHealthCheck ==
    \E isText \in BOOLEAN :
        PdpCall(healthCheckSends,
                [r \in PdpResponses(healthCheckSends) |-> healthCheck(r, isText)], "", "")

NextPdp ==
    \/ PdpCreateDomain
    \/ PdpDeleteDomain
    \/ PdpAddPolicy
    \/ PdpSetActivePolicy
    \/ PdpEvaluateRequest
    \/ PdpHealthCheck
    \/ TestEnds

SpecPdp == Init /\ [][NextPdp]_vars

-----------------------------------------------------------------------------
(* Properties of the runs against the PDP, checked under SpecPdp *)

RootsOf(d) == {pr[2] : pr \in {x \in pdp.roots : x[1] = d}}

C12_HealthCheckIsTrueOnlyOn200 ==
    outcome.op = "healthCheck" =>
        /\ outcome.kind = "returned"
        /\ Val(outcome.value) \in BOOLEAN
        /\ Val(outcome.value) => Val(response).status = 200
        /\ Val(response).status # 200 => ~Val(outcome.value)

\* the PDP answered 204: axios resolves, healthCheck says false
C12_Witness ==
    /\ outcome.op = "healthCheck"
    /\ Val(response).status = 204
    /\ outcome.kind = "returned"
    /\ Val(outcome.value) = FALSE

-----------------------------------------------------------------------------
(* Runs of XacmlTestUtils.waitForCondition *)

\* (timeout, interval) as the callers pass them, scaled to the model
WaitArguments ==
    {<<300, 100>>, <<500, 100>>, <<300, 200>>, <<100, 300>>, <<0, 100>>, <<-100, 100>>}
\* Date.now() when the call starts
StartTimes == {1000}
\* how long condition() takes, and how late a timer may fire
ConditionTimes == {0, 30}
TimerDelays == {0, 20}

WaitUnchanged == UNCHANGED <<options, request, sent, response, outcome, pdp, cleanup, calls, fmt, suite>>

\* XacmlTestUtils.waitForCondition(condition, timeout, interval) is called
WaitStarts ==
    /\ wait.pc = "idle"
    /\ \E a \in WaitArguments, now \in StartTimes :
        wait' = waitForConditionStarts(a[1], a[2], now)
    /\ WaitUnchanged

\* the while test is evaluated
WaitTests ==
    /\ wait.pc = "test"
    /\ wait' = LoopTest(wait)
    /\ WaitUnchanged

\* condition() is invoked and its promise settles
WaitPolls ==
    /\ wait.pc = "condition"
    /\ \E value \in BOOLEAN, took \in ConditionTimes :
        wait' = AfterCondition(wait, value, took)
    /\ WaitUnchanged

\* the timer fires
WaitSleeps ==
    /\ wait.pc = "sleep"
    /\ \E late \in TimerDelays : wait' = AfterSleep(wait, late)
    /\ WaitUnchanged

\* the caller has the result; the next call starts afresh
WaitEnds ==
    /\ wait.pc = "done"
    /\ wait' = NotWaiting
    /\ WaitUnchanged

NextWait ==
    \/ WaitStarts
    \/ WaitTests
    \/ WaitPolls
    \/ WaitSleeps
    \/ WaitEnds

SpecWait == Init /\ [][NextWait]_vars

-----------------------------------------------------------------------------
(* Properties of waitForCondition, checked under SpecWait *)

Elapsed == wait.now - wait.startTime
SomeTrue(results) == \E i \in 1..Len(results) : results[i]
\* condition() first returned true on its n-th invocation
FirstTrueAt(results, n) ==
    /\ Len(results) >= n
    /\ results[n]
    /\ \A i \in 1..(n - 1) : ~results[i]

C14_ElapsedTimes ==
    (wait.exact /\ wait.pc = "done") =>
        /\ (wait.interval = 100 /\ wait.timeout > 200 /\ ~SomeTrue(wait.results))
            => Len(wait.results) >= 3
        /\ (wait.interval = 100 /\ wait.timeout > 200 /\ FirstTrueAt(wait.results, 3))
            => (wait.result = Some(TRUE) /\ Elapsed >= 200 /\ Elapsed < 400)
        /\ (wait.timeout = 300 /\ ~SomeTrue(wait.results))
            => (wait.result = Some(FALSE) /\ Elapsed >= 300)

\* true on the 3rd invocation, on time
C14_Witness ==
    /\ wait.exact
    /\ wait.pc = "done"
    /\ wait.interval = 100
    /\ wait.timeout = 300
    /\ wait.results = <<FALSE, FALSE, TRUE>>
    /\ Elapsed = 200

\* C15: between two consecutive invocations of the predicate there is exactly
\* one completed sleep: the awaits of a call alternate, condition first.
C15_SleepBetweenInvocations ==
    \A i \in 1..Len(wait.log) :
        wait.log[i] = (IF i % 2 = 1 THEN "condition" ELSE "sleep")

\* three invocations, two sleeps
C15_Witness ==
    wait.log = <<"condition", "sleep", "condition", "sleep", "condition">>

-----------------------------------------------------------------------------
(* Runs of XacmlTestUtils.cleanupDomains *)

\* createdDomains of the test suites: any list, an id may be in it twice
CleanupLists == SeqsUpTo(PdpDomainIds, MaxCleanup)
\* how a DELETE may end: deleted, unknown domain, no answer
DeleteResponses == {Http(200, <<>>), Http(404, <<>>), Http(0, <<>>)}

CleanupUnchanged == UNCHANGED <<options, request, sent, response, outcome, pdp, wait, calls, fmt, suite>>

\* XacmlTestUtils.cleanupDomains(client, domainIds) is called and runs up to
\* its await
CleanupStarts ==
    /\ cleanup.pc = "idle"
    /\ \E ids \in CleanupLists : cleanup' = cleanupDomains(ids)
    /\ CleanupUnchanged

\* one of the deletes in flight ends, in any order
CleanupDeleteSettles ==
    /\ cleanup.pc = "waiting"
    /\ \E i \in 1..Len(cleanup.ids), resp \in DeleteResponses :
        /\ cleanup.promises[i] = "pending"
        /\ cleanup' = DeleteSettles(cleanup, i, resp)
    /\ CleanupUnchanged

\* Promise.all settles and cleanupDomains ends
CleanupSettles ==
    /\ cleanup.pc = "waiting"
    /\ PromiseAll(cleanup).pc = "done"
    /\ cleanup' = PromiseAll(cleanup)
    /\ CleanupUnchanged

\* the afterAll hook is over
CleanupEnds ==
    /\ cleanup.pc = "done"
    /\ cleanup' = NoCleanup
    /\ CleanupUnchanged

NextCleanup ==
    \/ CleanupStarts
    \/ CleanupDeleteSettles
    \/ CleanupSettles
    \/ CleanupEnds

SpecCleanup == Init /\ [][NextCleanup]_vars

-----------------------------------------------------------------------------
(* Properties of cleanupDomains, checked under SpecCleanup *)

\* C16: from its first await on, cleanupDomains has issued one DELETE for
\* every entry of the list, none waiting for another and whatever the others
\* do; it never rejects, and it resolves only after every delete has settled.
C16_CleanupAttemptsEveryDelete ==
    /\ cleanup.pc # "idle" =>
            /\ Len(cleanup.issued) = Len(cleanup.ids)
            /\ \A i \in 1..Len(cleanup.ids) :
                    cleanup.issued[i] = HttpRequest("DELETE", "/domains/" \o cleanup.ids[i], "")
    /\ cleanup.result # "rejected"
    /\ cleanup.pc = "done" =>
            /\ cleanup.result = "resolved"
            /\ \A i \in 1..Len(cleanup.ids) : cleanup.deletes[i].kind # "none"

\* the first delete failed, the second went through, and the call resolved
C16_Witness ==
    /\ cleanup.pc = "done"
    /\ Len(cleanup.ids) >= 2
    /\ cleanup.deletes[1].kind = "threw"
    /\ cleanup.deletes[2].kind = "returned"
    /\ cleanup.result = "resolved"

-----------------------------------------------------------------------------
(* Runs of concurrent calls on one client *)

DenyResponse ==
    <<Element("ns3", "Response", Null, <<>>),
      Element("ns3", "Result", Null, <<>>),
      Element("ns3", "Decision", Some("Deny"), <<>>)>>

\* what the PDP may answer to a call, whatever it answers to the others
CallResponses ==
    {Http(200, PermitResponse), Http(200, DenyResponse),
     Http(200, <<Element("ns2", "link", Null, <<Attr("href", "d1")>>)>>), Http(500, <<>>)}

CallsUnchanged == UNCHANGED <<options, request, sent, response, outcome, pdp, wait, cleanup, fmt, suite>>

\* the caller starts a call without awaiting the earlier ones
CallStarts ==
    /\ \E i \in 1..MaxCalls, op \in CallOps, d \in PdpDomainIds :
        /\ calls.slots[i].pc = "free"
        /\ \A j \in 1..(i - 1) : calls.slots[j].pc # "free"
        /\ op \in {"createDomain", "healthCheck"} => d = "d1"
        /\ calls' = CallBegins(calls, i, op, d)
    /\ CallsUnchanged

\* the response to one of the requests in flight comes in, in any order
CallSettles ==
    /\ \E i \in 1..MaxCalls, resp \in CallResponses :
        /\ calls.slots[i].pc = "awaiting"
        /\ calls' = CallResumes(calls, i, resp)
    /\ CallsUnchanged

\* the caller has every result (await Promise.all of the calls)
CallsEnd ==
    /\ \A i \in 1..MaxCalls : calls.slots[i].pc = "settled"
    /\ calls' = NoCalls
    /\ CallsUnchanged

NextCalls ==
    \/ CallStarts
    \/ CallSettles
    \/ CallsEnd

SpecCalls == Init /\ [][NextCalls]_vars

-----------------------------------------------------------------------------
(* Properties of concurrent calls, checked under SpecCalls *)

\* the text of the first Decision element of a document that has one
DecisionTextOf(doc) == Val(doc[First(DecisionElements(doc))].text)

\* C17: the fields of the client object stay as the constructor set them
\* whatever calls are made, and every evaluateRequest call that is over has
\* returned the decision written in the response to its own request (or has
\* failed when that response was an error or had no Decision), whatever the
\* other calls received and in whatever order.
C17_CallsDoNotInterfere ==
    /\ calls.client = constructor(DefaultBaseUrl)
    /\ \A i \in 1..MaxCalls :
        LET slot == calls.slots[i]
            own == Val(slot.response)
        IN  (slot.pc = "settled" /\ slot.op = "evaluateRequest") =>
                IF Resolves(own) /\ DecisionElements(own.data) # {}
                THEN /\ slot.how.kind = "returned"
                     /\ Val(slot.how.value).decision = DecisionTextOf(own.data)
                ELSE slot.how.kind = "threw"

\* two evaluateRequest calls were in flight together; the second one started
\* was answered first, and each has the decision of its own response
C17_Witness ==
    /\ calls.slots[1].op = "evaluateRequest"
    /\ calls.slots[2].op = "evaluateRequest"
    /\ calls.slots[1].pc = "awaiting"
    /\ calls.slots[2].pc = "settled"
    /\ calls.slots[2].how.kind = "returned"
    /\ Val(calls.slots[2].how.value).decision = "Deny"

-----------------------------------------------------------------------------
(* The errors the calls throw, checked under SpecLifecycle *)

\* `throw new Error(`Failed to ...: ${error.message}`)` in the catch block of
\* every method: the object the caller catches is a plain Error, its message
\* the only thing taken over from the error caught
ErrorOf(how) == [name |-> "Error", message |-> how.message]

\* a response whose body the DOM parser could not parse
Malformed(resp) == Resolves(resp) /\ ParseFails(resp.data)

\* C18: when the response body is malformed XML, the error of createDomain
\* or addPolicy carries the parser's diagnostic text and is of another kind
\* than the errors the same call throws for a missing link element and for
\* a transport failure.
C18_ParseErrorIsOfItsOwnKind ==
    (/\ outcome.op \in {"createDomain", "addPolicy"}
     /\ outcome.kind = "threw"
     /\ Len(sent) = 1
     /\ Malformed(Val(response))) =>
        /\ Includes(outcome.message, ParseErrorText(Val(response).data))
        /\ \A other \in LinkResponses :
              LET how == createDomain(Null, other)
              IN  (how.kind = "threw" /\ ~Malformed(other)) =>
                      ErrorOf(how).name # ErrorOf(outcome).name

-----------------------------------------------------------------------------
(* Runs of XacmlTestUtils.extractPolicyId *)

\* the attributes a policy file may carry on its elements
\* XacmlTestUtils.validatePolicyXml(policyXml)
validatePolicyXml(policyXml) ==
    LET noRoot == ~Includes(policyXml, "<Policy") /\ ~Includes(policyXml, "<PolicySet")
        noNamespace == ~Includes(policyXml, "xmlns")
        noPolicyId == ~Includes(policyXml, "PolicyId")
    IN  [isValid |-> ~noRoot /\ ~noPolicyId,
         errors |-> (IF noRoot THEN <<"Missing Policy or PolicySet root element">> ELSE <<>>)
                    \o (IF noPolicyId THEN <<"Missing PolicyId attribute">> ELSE <<>>),
         warnings |-> IF noNamespace THEN <<"Missing XML namespace declaration">> ELSE <<>>]

\* policy files as the tests load them
ValidatedFiles ==
    {"<PolicySet xmlns=\"urn:oasis:names:tc:xacml:3.0:core:schema:wd-17\" PolicySetId=\"root\" Version=\"1.0\"><Target/></PolicySet>",
     "<PolicySet PolicySetId=\"root\" Version=\"1.0\"><Policy PolicyId=\"p1\" Version=\"1.0\"/></PolicySet>",
     "<Policy xmlns=\"urn:oasis:names:tc:xacml:3.0:core:schema:wd-17\" PolicyId=\"p1\" Version=\"1.0\"><Target/></Policy>",
     "<Policy Version=\"1.0\"><Target/></Policy>",
     "<Rule RuleId=\"r1\" Effect=\"Permit\"/>"}

PolicyAttrs ==
    {Attr("PolicySetId", "root"), Attr("PolicySetId", "ps2"), Attr("PolicySetId", ""),
     Attr("PolicyId", "p1"), Attr("PolicyId", ""), Attr("Version", "1.0")}

\* the text of a policy file with these attributes, in this order
RECURSIVE PolicyText(_)
PolicyText(attrs) ==
    IF attrs = <<>> THEN "<Policy>"
    ELSE "<Policy " \o Head(attrs).name \o "=\"" \o Head(attrs).value \o "\">"
         \o PolicyText(Tail(attrs))

PolicyFiles == SeqsUpTo(PolicyAttrs, MaxAttrs)

\* a test calls XacmlTestUtils.extractPolicyId(policyXml)
ExtractPolicyId ==
    /\ outcome.kind = "none"
    /\ \E attrs \in PolicyFiles :
        /\ options' = Some([attrs |-> attrs, policyXml |-> PolicyText(attrs)])
        /\ outcome' = Returned("extractPolicyId", extractPolicyId(PolicyText(attrs)))
    /\ UNCHANGED <<request, sent, response>>
    /\ UNCHANGED added

\* a test calls XacmlTestUtils.validatePolicyXml(policyXml)
ValidatePolicyXml ==
    /\ outcome.kind = "none"
    /\ \E policyXml \in ValidatedFiles \cup {PolicyText(attrs) : attrs \in PolicyFiles} :
        /\ options' = Some([attrs |-> <<>>, policyXml |-> policyXml])
        /\ outcome' = Returned("validatePolicyXml", validatePolicyXml(policyXml))
    /\ UNCHANGED <<request, sent, response>>
    /\ UNCHANGED added

NextExtract ==
    \/ ExtractPolicyId
    \/ ValidatePolicyXml
    \/ TestEnds

SpecExtract == Init /\ [][NextExtract]_vars

-----------------------------------------------------------------------------
(* Properties of extractPolicyId, checked under SpecExtract *)

\* the values of the attributes called name that have a value, in order
ValuesOf(attrs, name) ==
    SelectSeq(attrs, LAMBDA a : a.name = name /\ a.value # "")

\* C19: extractPolicyId returns the value of the first PolicySetId="..."
\* attribute of the text if there is one, wherever the PolicyId attributes
\* are; without one the value of the first PolicyId="..." attribute; without
\* either, null.
C19_PolicySetIdFirst ==
    outcome.op = "extractPolicyId" =>
        LET attrs == Val(options).attrs
            got == Val(outcome.value)
        IN  IF ValuesOf(attrs, "PolicySetId") # <<>>
            THEN got = Some(ValuesOf(attrs, "PolicySetId")[1].value)
            ELSE IF ValuesOf(attrs, "PolicyId") # <<>>
            THEN got = Some(ValuesOf(attrs, "PolicyId")[1].value)
            ELSE got = Null

\* a PolicyId comes before two PolicySetId attributes: the first of these wins
C19_Witness ==
    /\ outcome.op = "extractPolicyId"
    /\ Val(options).attrs = <<Attr("PolicyId", "p1"), Attr("PolicySetId", "ps2"),
                              Attr("PolicySetId", "root")>>
    /\ Val(outcome.value) = Some("ps2")

-----------------------------------------------------------------------------
(* Runs of formatXML *)

\* What the root element of a document may contain.  xml is the text of the
\* child; leaves lists its elements with non-blank text content, each with
\* the number of elements of the child that enclose it.
Unit(xml, leaves) == [xml |-> xml, leaves |-> leaves]
Leaf(depth, xml) == [depth |-> depth, xml |-> xml]

FormatUnits ==
    {Unit("<Description>read access</Description>",
          <<Leaf(0, "<Description>read access</Description>")>>),
     Unit("<Target><AttributeValue DataType=\"string\">person</AttributeValue></Target>",
          <<Leaf(1, "<AttributeValue DataType=\"string\">person</AttributeValue>")>>),
     Unit("<Match MatchId=\"string-equal\"/>", <<>>),
     Unit("<Target></Target>", <<>>),
     Unit("<!-- rule for readers -->", <<>>),
     Unit("see the rules below", <<>>),
     Unit("<!-- <Description>old</Description> -->", <<>>),
     Unit("<Match MatchId=\"a>b\"/>", <<>>)}

RECURSIVE UnitsText(_)
UnitsText(units) == IF units = <<>> THEN "" ELSE Head(units).xml \o UnitsText(Tail(units))

\* the document: a declaration and a root element around the children
DocumentOf(units) == "<?xml version=\"1.0\"?><Policy>" \o UnitsText(units) \o "</Policy>"

FormatInputs == SeqsUpTo(FormatUnits, MaxUnits)

FormatUnchanged ==
    UNCHANGED <<options, request, sent, response, outcome, pdp, wait, cleanup, calls, suite>>

\* formatXML(xmlString) is called
FormatStarts ==
    /\ fmt.pc = "idle"
    /\ \E units \in FormatInputs : fmt' = formatXMLStarts(units, DocumentOf(units))
    /\ FormatUnchanged

\* the while test and, if it holds, one pass through the body
FormatScans ==
    /\ fmt.pc = "loop"
    /\ fmt' = FormatIteration(fmt)
    /\ FormatUnchanged

\* the build step has the text (or the error); the next file is formatted
FormatEnds ==
    /\ fmt.pc \in {"done", "threw"}
    /\ fmt' = NoText
    /\ FormatUnchanged

NextFormat ==
    \/ FormatStarts
    \/ FormatScans
    \/ FormatEnds

SpecFormat == Init /\ [][NextFormat]_vars

-----------------------------------------------------------------------------
(* Properties of formatXML, checked under SpecFormat *)

\* the lines the leaves of the document are to be written as: each on one
\* line, two spaces per enclosing element (the root, and the child's own)
RECURSIVE LeafLinesOf(_)
LeafLinesOf(units) ==
    IF units = <<>> THEN <<>>
    ELSE [k \in 1..Len(Head(units).leaves) |->
              Indent(1 + Head(units).leaves[k].depth) \o Head(units).leaves[k].xml]
         \o LeafLinesOf(Tail(units))

\* the lines of the output that hold the closing tag of a leaf
LeafLinesIn(lines) ==
    SelectSeq(lines, LAMBDA l : IndexOf(l, "</Description>", 0) # -1
                                \/ IndexOf(l, "</AttributeValue>", 0) # -1)

\* C20: for every well-formed input formatXML returns, and every element
\* whose content is non-blank text without '<' is in the output as one line
\* (opening tag, text, closing tag) indented two spaces per enclosing open
\* element; writing such an element leaves the indent level as it was.
C20_LeafOnOneLineAtItsDepth ==
    /\ fmt.pc # "threw"
    /\ fmt.branch = "inline" => fmt.indentLevel = fmt.before
    /\ fmt.pc = "done" => LeafLinesIn(fmt.result) = LeafLinesOf(fmt.units)

\* C21: formatXML is idempotent: when it returns a text for a well-formed
\* input, formatting that text again returns the same text.
C21_FormatXMLIsIdempotent ==
    fmt.pc = "done" => formatXML(Join(fmt.result)) = Some(Join(fmt.result))

\* a document with nested elements, a leaf and text between tags was
\* formatted into several indented lines
C21_Witness ==
    /\ fmt.pc = "done"
    /\ Len(fmt.units) = MaxUnits
    /\ \E k \in 1..Len(fmt.result) : HasPrefix(fmt.result[k], Indent(2))
    /\ \E k \in 1..Len(fmt.units) : fmt.units[k].leaves = <<>> /\ ~HasPrefix(fmt.units[k].xml, "<")

-----------------------------------------------------------------------------
(* scripts/build-xacml.js : transformXacmlNamespace(xmlContent), the text    *)
(* substitutions the build step makes before it formats a policy file        *)

MaxChildren == 2

\* s.substring(a), for 0 <= a <= s.length
SubstringFrom(s, a) == SubSeq(s, a + 1, Len(s))

\* s.replace(/word/g, by) for a word without special characters
RECURSIVE ReplaceAll(_, _, _)
ReplaceAll(s, word, by) ==
    LET at == IndexOf(s, word, 0)
    IN  IF at = -1 THEN s
        ELSE Substring(s, 0, at) \o by
             \o ReplaceAll(SubstringFrom(s, at + Len(word)), word, by)

\* s.replace(/word/, by) : the first occurrence only
ReplaceFirst(s, word, by) ==
    LET at == IndexOf(s, word, 0)
    IN  IF at = -1 THEN s
        ELSE Substring(s, 0, at) \o by \o SubstringFrom(s, at + Len(word))

Xacml3Binding == "xmlns:xacml3=\""

\* xmlContent.replace(/xmlns:xacml3="[^"]*"/g, '')
RECURSIVE RemoveBindings(_)
RemoveBindings(s) ==
    LET at == IndexOf(s, Xacml3Binding, 0)
        close == IF at = -1 THEN -1 ELSE IndexOf(s, "\"", at + Len(Xacml3Binding))
    IN  IF close = -1 THEN s
        ELSE Substring(s, 0, at) \o RemoveBindings(SubstringFrom(s, close + 1))

\* transformed.replace(/\s+/g, ' ')
RECURSIVE CollapseWhitespace(_)
CollapseWhitespace(s) ==
    LET spaces == {k \in 1..Len(s) : IsSpace(SubSeq(s, k, k))}
        first == CHOOSE k \in spaces : \A j \in spaces : k <= j
        ends == {k \in (first + 1)..(Len(s) + 1) :
                    k = Len(s) + 1 \/ ~IsSpace(SubSeq(s, k, k))}
        end == CHOOSE k \in ends : \A j \in ends : k <= j
    IN  IF spaces = {} THEN s
        ELSE SubSeq(s, 1, first - 1) \o " "
             \o CollapseWhitespace(SubSeq(s, end, Len(s)))

DefaultNamespace == "xmlns=\"urn:oasis:names:tc:xacml:3.0:core:schema:wd-17\""

\* transformed.replace(/<PolicySet /, '<PolicySet xmlns="..." ')
InstallDefaultNamespace(s) ==
    ReplaceFirst(s, "<PolicySet ", "<PolicySet " \o DefaultNamespace \o " ")

transformXacmlNamespace(xmlContent) ==
    CollapseWhitespace(
        InstallDefaultNamespace(
            ReplaceAll(RemoveBindings(xmlContent), "xacml3:", "")))

-----------------------------------------------------------------------------
(* Runs of the build step on authoring-format files: the elements carry the  *)
(* prefix xacml3, bound on the root element                                  *)

RootNames == {"PolicySet", "Policy"}

\* the white space between the name of the root element and its attributes
RootSpaces == {" ", "\n    ", "\t"}

Xacml3Declaration == "xmlns:xacml3=\"urn:oasis:names:tc:xacml:3.0:core:schema:wd-17\""

\* what a root element of this name may hold
ChildrenOf(root) ==
    IF root = "PolicySet"
    THEN {"<xacml3:Description>role based</xacml3:Description>",
          "<xacml3:Policy PolicyId=\"p1\" Version=\"1.0\"><xacml3:Target/></xacml3:Policy>",
          "<xacml3:PolicySet PolicySetId=\"inner\" Version=\"1.0\"><xacml3:Target/></xacml3:PolicySet>",
          "<xacml3:PolicyIdReference>p1</xacml3:PolicyIdReference>"}
    ELSE {"<xacml3:Description>role based</xacml3:Description>",
          "<xacml3:Target/>",
          "<xacml3:Rule RuleId=\"r1\" Effect=\"Permit\"/>",
          "<xacml3:Rule RuleId=\"r2\"\n      Effect=\"Deny\"/>"}

RECURSIVE ChildrenText(_)
ChildrenText(children) ==
    IF children = <<>> THEN ""
    ELSE "\n  " \o Head(children) \o ChildrenText(Tail(children))

\* the text of the file
AuthoringText(root, space, declFirst, children) ==
    LET id == root \o "Id=\"root\""
    IN  "<?xml version=\"1.0\" encoding=\"UTF-8\"?>\n<xacml3:" \o root \o space
        \o (IF declFirst THEN Xacml3Declaration \o " " \o id
                         ELSE id \o " " \o Xacml3Declaration)
        \o " Version=\"1.0\">" \o ChildrenText(children)
        \o "\n</xacml3:" \o root \o ">\n"

\* processXmlFile reads a file and calls transformXacmlNamespace(xmlContent)
TransformXacmlNamespace ==
    /\ outcome.kind = "none"
    /\ \E root \in RootNames, space \in RootSpaces, declFirst \in BOOLEAN :
       \E children \in SeqsUpTo(ChildrenOf(root), MaxChildren) :
        LET xmlContent == AuthoringText(root, space, declFirst, children)
        IN  /\ options' = Some([root |-> root, space |-> space, children |-> children,
                                xmlContent |-> xmlContent])
            /\ outcome' = Returned("transformXacmlNamespace",
                                   transformXacmlNamespace(xmlContent))
    /\ UNCHANGED <<request, sent, response>>
    /\ UNCHANGED added

NextBuild ==
    \/ TransformXacmlNamespace
    \/ TestEnds

SpecBuild == Init /\ [][NextBuild]_vars

-----------------------------------------------------------------------------
(* Properties of transformXacmlNamespace, checked under SpecBuild *)

\* how often word is in s
RECURSIVE CountOf(_, _)
CountOf(s, word) ==
    LET at == IndexOf(s, word, 0)
    IN  IF at = -1 THEN 0 ELSE 1 + CountOf(SubstringFrom(s, at + Len(word)), word)

\* the start tag of the first element called name, "" without one
StartTagOf(s, name) ==
    LET starts == {k \in 0..(Len(s) - Len(name) - 2) :
                      /\ Substring(s, k, k + Len(name) + 1) = "<" \o name
                      /\ ~IsNameChar(Substring(s, k + Len(name) + 1, k + Len(name) + 2))}
        start == CHOOSE k \in starts : \A j \in starts : k <= j
    IN  IF starts = {} THEN ""
        ELSE Substring(s, start, IndexOf(s, ">", start) + 1)

\* C22: the output of transformXacmlNamespace for an authoring-format file
\* has no xmlns:xacml3="..." binding and no xacml3: prefix, and when the root
\* element is a PolicySet its start tag declares the default namespace
\* urn:oasis:names:tc:xacml:3.0:core:schema:wd-17 exactly once.
C22_DefaultNamespaceOnRoot ==
    outcome.op = "transformXacmlNamespace" =>
        LET out == Val(outcome.value)
        IN  /\ IndexOf(out, "xmlns:xacml3=", 0) = -1
            /\ IndexOf(out, "xacml3:", 0) = -1
            /\ Val(options).root = "PolicySet" =>
                   CountOf(StartTagOf(out, "PolicySet"), DefaultNamespace) = 1

\* the same, for the files whose root element name is followed by a blank
DefaultNamespaceAfterBlank ==
    (outcome.op = "transformXacmlNamespace" /\ Val(options).space = " ") =>
        LET out == Val(outcome.value)
        IN  /\ IndexOf(out, "xmlns:xacml3=", 0) = -1
            /\ IndexOf(out, "xacml3:", 0) = -1
            /\ Val(options).root = "PolicySet" =>
                   CountOf(StartTagOf(out, "PolicySet"), DefaultNamespace) = 1

-----------------------------------------------------------------------------
(* Runs of a test file against the PDP: test/role-based-policy.test.js.      *)
(* The PDP has no domain when the run starts and nothing else talks to it.   *)

SuiteDomainId == "rbac-test-1767225600000-k3x9ab"

\* the PDP after it has given the answer ans to a call that ended as how
PdpAfter(state, ans, domainId, policyId, how) ==
    [domains |-> ans.domains, roots |-> ans.roots,
     lastSet |-> LastSetAfter(state, ans.domains, domainId, policyId, how)]

SuiteUnchanged == UNCHANGED <<options, request, sent, response, outcome, wait, calls, fmt>>

\* beforeAll: the client is made and the PDP is polled until it is healthy or
\* the time is up
SuiteBeforeAll ==
    /\ suite.pc = "idle"
    /\ \E ans \in PdpAnswers(pdp, healthCheckSends) :
        LET how == healthCheck(ans.resp, TRUE)
        IN  suite' = AfterBeforeAll(suite, Val(how.value))
    /\ UNCHANGED <<pdp, cleanup>>
    /\ SuiteUnchanged

\* beforeEach: domainId = await client.createDomain(generateDomainId(...));
\* createdDomains.push(domainId)
SuiteCreateDomain ==
    /\ suite.pc = "beforeEach"
    /\ suite.tests < MaxTests
    /\ LET req == createDomainSends(Some(SuiteDomainId))
       IN  \E ans \in PdpAnswers(pdp, req) :
            LET how == createDomain(Some(SuiteDomainId), ans.resp)
            IN  /\ pdp' = PdpAfter(pdp, ans, "", "", how)
                /\ suite' = AfterCreateDomain(suite, how)
    /\ UNCHANGED cleanup
    /\ SuiteUnchanged

\* beforeEach, the rest: the policy is uploaded and made the root
SuiteDeploy ==
    /\ suite.pc = "deploy"
    /\ LET d == suite.domainId
           policyId == extractPolicyId(ThePolicy)
       IN  \E a2 \in PdpAnswers(pdp, addPolicySends(d, ThePolicy)) :
            LET o2 == addPolicy(d, ThePolicy, policyId, a2.resp)
                pdp2 == PdpAfter(pdp, a2, d, "", o2)
            IN  IF o2.kind = "threw"
                THEN /\ pdp' = pdp2
                     /\ suite' = [suite EXCEPT !.pc = "beforeEach"]
                ELSE \E a3 \in PdpAnswers(pdp2, setActivePolicySends(d, policyId)) :
                        LET o3 == setActivePolicy(d, policyId, a3.resp)
                        IN  /\ pdp' = PdpAfter(pdp2, a3, d, Val(policyId), o3)
                            /\ suite' = [suite EXCEPT !.pc = IF o3.kind = "threw"
                                                             THEN "beforeEach" ELSE "test"]
    /\ UNCHANGED cleanup
    /\ SuiteUnchanged

\* the body of a test: one evaluateRequest on the domain of the test
SuiteTest ==
    /\ suite.pc = "test"
    /\ LET d == suite.domainId
       IN  \E ans \in PdpAnswers(pdp, evaluateRequestSends(d, TheQuery)) :
            LET how == evaluateRequest(d, TheQuery, ans.resp)
            IN  pdp' = PdpAfter(pdp, ans, d, "", how)
    /\ suite' = [suite EXCEPT !.pc = "beforeEach"]
    /\ UNCHANGED cleanup
    /\ SuiteUnchanged

\* no test is left: afterAll calls cleanupDomains(client, createdDomains)
\* unless the list is empty
SuiteAfterAll ==
    /\ suite.pc \in {"beforeEach", "afterAll"}
    /\ suite' = AfterAllStarts(suite)
    /\ cleanup' = IF Len(suite.createdDomains) > 0
                  THEN cleanupDomains(suite.createdDomains) ELSE cleanup
    /\ UNCHANGED pdp
    /\ SuiteUnchanged

\* one of the deletes in flight ends, in any order
SuiteDeleteSettles ==
    /\ suite.pc = "cleaning"
    /\ \E i \in 1..Len(cleanup.ids) :
        /\ cleanup.promises[i] = "pending"
        /\ \E ans \in PdpAnswers(pdp, cleanup.issued[i]) :
            /\ cleanup' = DeleteSettles(cleanup, i, ans.resp)
            /\ pdp' = PdpAfter(pdp, ans, cleanup.ids[i], "",
                               deleteDomain(cleanup.ids[i], ans.resp))
    /\ UNCHANGED suite
    /\ SuiteUnchanged

\* Promise.all settles, cleanupDomains and afterAll end
SuiteCleanupSettles ==
    /\ suite.pc = "cleaning"
    /\ PromiseAll(cleanup).pc = "done"
    /\ cleanup' = PromiseAll(cleanup)
    /\ suite' = [suite EXCEPT !.pc = "done"]
    /\ UNCHANGED pdp
    /\ SuiteUnchanged

NextSuite ==
    \/ SuiteBeforeAll
    \/ SuiteCreateDomain
    \/ SuiteDeploy
    \/ SuiteTest
    \/ SuiteAfterAll
    \/ SuiteDeleteSettles
    \/ SuiteCleanupSettles

\* jest runs every hook and test to its end, and every HTTP call settles (the
\* client's timeout)
SpecSuite == Init /\ [][NextSuite]_vars /\ WF_vars(NextSuite)

-----------------------------------------------------------------------------
(* Properties of a run of a test file, checked under SpecSuite *)

\* deleteDomain has been called with d by the cleanup of afterAll
PassedToDelete(d) ==
    /\ cleanup.pc # "idle"
    /\ \E i \in 1..Len(cleanup.ids) :
        cleanup.ids[i] = d /\ cleanup.issued[i] = deleteDomainSends(d)

-----------------------------------------------------------------------------
(* The environment bag of a query, checked under SpecEncode *)

\* bags a caller may hand in as environment, one with the key of a subject
EnvironmentBags == EnvironmentFields \cup {Bag(SubjectBag), Bag(EmptyBag)}

\* C24: the request evaluateRequest sends is the same whatever the
\* environment bag of the query holds, and it holds no attribute of the
\* environment: no wrapper of the environment category, no AttributeId of it.
C24_EnvironmentIsNotEncoded ==
    Evaluated =>
        /\ \A e \in EnvironmentBags :
                buildRequestXml([Val(request) EXCEPT !.environment = e]) = Encoded
        /\ \A i \in 1..Len(Encoded.Attributes) :
                /\ Encoded.Attributes[i].Category # EnvironmentCategory
                /\ \A k \in 1..Len(Encoded.Attributes[i].Attribute) :
                        ~Includes(Encoded.Attributes[i].Attribute[k].AttributeId, "environment")

\* a query made by createRequest, with the current time in its environment
\* bag, was sent with attributes of the three other categories
C24_Witness ==
    /\ Evaluated
    /\ ~IsNull(options)
    /\ Val(request).environment.defined
    /\ Val(request).environment.entries # <<>>
    /\ Len(Encoded.Attributes) = 3

-----------------------------------------------------------------------------
(* Responses with several results, checked under SpecDecode *)

ElementsNamed(doc, name) == {i \in 1..Len(doc) : doc[i].local = name}

-----------------------------------------------------------------------------
(* The number of invocations of waitForCondition, checked under SpecWait *)

\* Math.ceil(a / b) for b > 0
Ceil(a, b) == IF a <= 0 THEN 0 ELSE (a + b - 1) \div b

\* the invocations of the predicate started so far
Invocations == Len(wait.results) + (IF wait.pc = "condition" THEN 1 ELSE 0)

\* C26: waitForCondition starts an invocation of the predicate only while
\* less than the timeout has elapsed; with a timeout <= 0 the predicate is
\* never invoked and the result is false; with an interval > 0 the predicate
\* is invoked at most ceil(timeout / interval) times (the most when the
\* predicate takes no time).
C26_InvocationsWithinTimeout ==
    /\ wait.pc = "condition" => Elapsed < wait.timeout
    /\ (wait.pc # "idle" /\ wait.timeout <= 0) =>
            /\ Invocations = 0
            /\ wait.pc = "done" => wait.result = Some(FALSE)
    /\ (wait.pc # "idle" /\ wait.interval > 0) =>
            Invocations <= Ceil(wait.timeout, wait.interval)

\* timeout 300, interval 100, a predicate that takes no time and is never
\* true: three invocations, then false
C26_Witness ==
    /\ wait.pc = "done"
    /\ wait.exact
    /\ wait.timeout = 300 /\ wait.interval = 100
    /\ Len(wait.results) = Ceil(wait.timeout, wait.interval)
    /\ wait.result = Some(FALSE)

\* timeout 0: the call has returned false without an invocation
WaitWithoutTime ==
    /\ wait.pc = "done"
    /\ wait.timeout = 0
    /\ wait.results = <<>>
    /\ wait.result = Some(FALSE)

-----------------------------------------------------------------------------
(* healthCheck and the body of the answer, checked under SpecPdp *)

\* C27: healthCheck returns true whenever GET /domains is answered with
\* status 200, whatever the body of the answer is: a string, the empty
\* string, or a value that is not a string.
C27_TrueOn200WhateverTheBody ==
    (outcome.op = "healthCheck" /\ Val(response).status = 200) =>
        (outcome.kind = "returned" /\ Val(outcome.value) = TRUE)

-----------------------------------------------------------------------------
(* What formatXML keeps of its input, checked under SpecFormat *)

\* s without its white space
StripWhitespace(s) ==
    ReplaceAll(ReplaceAll(ReplaceAll(ReplaceAll(s, " ", ""), "\n", ""), "\t", ""), "\r", "")

\* C28: formatXML loses no content: the characters of the input that are not
\* white space are all in the output, in their order, the text between
\* sibling tags included (the output adds white space only).
C28_NoContentIsLost ==
    fmt.pc = "done" => StripWhitespace(Join(fmt.result)) = StripWhitespace(fmt.xmlString)

\* the same, for documents without text between tags except in leaves, and
\* without '>' in attribute values
NoContentIsLostWithoutMixedContent ==
    (/\ fmt.pc = "done"
     /\ \A k \in 1..Len(fmt.units) :
            HasPrefix(fmt.units[k].xml, "<") /\ IndexOf(fmt.units[k].xml, "a>b", 0) = -1)
        => StripWhitespace(Join(fmt.result)) = StripWhitespace(fmt.xmlString)

-----------------------------------------------------------------------------
(* Termination of formatXML.  The loop has no await: once called, the        *)
(* function runs on until it returns or throws.                              *)

\* weak fairness of the loop step, WF_vars(FormatScans), written out: the
\* step is enabled exactly while the call is in its loop (a pass changes i or
\* ends the call)
ScanFairness == []<>(fmt.pc # "loop") \/ []<><<FormatScans>>_vars

SpecFormatFair == Init /\ [][NextFormat]_vars /\ ScanFairness

\* C29: formatXML terminates on every input: every pass through the loop
\* that does not end the call leaves i larger than it was, and never beyond
\* the length of the input, so the call ends, by return or by a throw.
C29_FormatXMLTerminates ==
    /\ [][(fmt.pc = "loop" /\ fmt'.pc = "loop") =>
            (fmt'.i > fmt.i /\ fmt'.i <= Len(fmt.xmlString))]_vars
    /\ (fmt.pc = "loop") ~> (fmt.pc \in {"done", "threw"})

\* the loop has gone through a document of MaxUnits children, the inline
\* branch included, and has ended at the end of the text
C29_Witness ==
    /\ fmt.pc = "done"
    /\ Len(fmt.units) = MaxUnits
    /\ fmt.units[1].leaves # <<>>
    /\ fmt.i = Len(fmt.xmlString)
    /\ Len(fmt.result) > 4

-----------------------------------------------------------------------------
(* validatePolicyXml and extractPolicyId, checked under SpecExtract *)

\* the text holds the start tag of a Policy or of a PolicySet element
HasPolicyElement(policyXml) ==
    StartTagOf(policyXml, "Policy") # "" \/ StartTagOf(policyXml, "PolicySet") # ""

\* C30: validatePolicyXml and extractPolicyId agree on every document:
\* isValid is true exactly when the document holds a Policy or PolicySet
\* element and extractPolicyId returns an id for it.
C30_ValidIffIdCanBeExtracted ==
    outcome.op = "validatePolicyXml" =>
        LET policyXml == Val(options).policyXml
        IN  Val(outcome.value).isValid <=>
                (HasPolicyElement(policyXml) /\ ~IsNull(extractPolicyId(policyXml)))

=============================================================================
